---- MODULE Spec2Model ----
(***************************************************************************)
(* niwa-core: the persistence and graph-integrity layer.                   *)
(*   storage.rs  Storage  (create / get / update / delete / versions)      *)
(*   graph.rs    GraphOperations (relations, cycle check)                  *)
(*   types.rs    Scope, Expertise, ExpertiseMetadata                       *)
(*   query.rs    QueryBuilder (search, filter_by_tags)                     *)
(* The four tables of the store are the state; every public method is an   *)
(* action.  The sequential specifications take a whole method as one step; *)
(* the concurrent ones split a method at each statement it awaits.         *)
(***************************************************************************)
EXTENDS Integers, Sequences, FiniteSets, Bags, TLC

VARIABLES
    expertises,   \* rows of table expertises
    tags,         \* rows of table tags: a bag of <<expertise_id, tag>>
    relations,    \* rows of table relations
    versions,     \* rows of table versions
    now,          \* chrono::Utc::now().timestamp(), whole seconds
    last,         \* the call that returned last: [op, result, a, b, t]
    calls         \* per task: the create_relation call it is running (concurrent specification)

vars == <<expertises, tags, relations, versions, now, last, calls>>
tables == <<expertises, tags, relations, versions>>

----------------------------------------------------------------------------
(* Bounds of the model.                                                    *)

MaxNow == 1          \* the clock runs over 0..MaxNow
MaxEdges == 3        \* at most this many relation rows are stored

Ids == {"a", "b", "c"}
NULL == "NULL"          \* a NULL column (metadata: Option<String>)
None == {}              \* Option::None of a returned Expertise
Some(x) == {x}          \* Option::Some
Unwrap(o) == CHOOSE x \in o : TRUE

----------------------------------------------------------------------------
(* types.rs: Scope                                                          *)

Scope == {"Personal", "Company", "Project"}

Scope_as_str(s) ==
    CASE s = "Personal" -> "personal"
      [] s = "Company"  -> "company"
      [] s = "Project"  -> "project"

\* serde's reading of the lowercase scope name
Scope_deserialize(str) ==
    CASE str = "personal" -> "Personal"
      [] str = "company"  -> "Company"
      [] str = "project"  -> "Project"

(* types.rs: Expertise = inner (id, version, description, tags, content)   *)
(* flattened with metadata (scope, created_at, updated_at).                *)

Expertise_new(id, version, description, tgs, content, scope, created, updated) ==
    [id |-> id, version |-> version, description |-> description, tags |-> tgs,
     content |-> content, scope |-> scope, created_at |-> created, updated_at |-> updated]

\* the tags field is left out of the serialized object
to_json_skips_tags(e) ==
    [id |-> e.id, version |-> e.version, description |-> e.description, tags |-> <<>>,
     content |-> e.content, scope |-> Scope_as_str(e.scope),
     created_at |-> e.created_at, updated_at |-> e.updated_at]

\* serde_json::to_string: one flat object, the scope as its lowercase name
to_json(e) ==
    [id |-> e.id, version |-> e.version, description |-> e.description, tags |-> e.tags,
     content |-> e.content, scope |-> Scope_as_str(e.scope),
     created_at |-> e.created_at, updated_at |-> e.updated_at]

from_json(j) ==
    [id |-> j.id, version |-> j.version, description |-> j.description, tags |-> j.tags,
     content |-> j.content, scope |-> Scope_deserialize(j.scope),
     created_at |-> j.created_at, updated_at |-> j.updated_at]

description(e) == e.description

touch(e, t) == [e EXCEPT !.updated_at = t]

----------------------------------------------------------------------------
(* The call that returned last.                                            *)

Ret(op, result, a, b, t) == [op |-> op, result |-> result, a |-> a, b |-> b, t |-> t]

----------------------------------------------------------------------------
(* graph.rs: RelationType and the relations table                          *)

RelationType == {"Uses", "Extends", "Conflicts", "Requires"}

RelationType_as_str(t) ==
    CASE t = "Uses"      -> "uses"
      [] t = "Extends"   -> "extends"
      [] t = "Conflicts" -> "conflicts"
      [] t = "Requires"  -> "requires"

RECURSIVE SeqOfSet(_)
SeqOfSet(S) ==
    IF S = {} THEN <<>>
    ELSE LET x == CHOOSE y \in S : TRUE IN <<x>> \o SeqOfSet(S \ {x})

get_dependencies_no_requires(R, id) ==
    {r.to_id : r \in {x \in R : x.from_id = id /\ x.relation_type \in {"uses", "extends"}}}

\* SELECT DISTINCT to_id ... WHERE from_id = ? AND relation_type IN (...)
get_dependencies(R, id) ==
    {r.to_id : r \in {x \in R : x.from_id = id
                                /\ x.relation_type \in {"uses", "requires", "extends"}}}

\* one turn of the `while let Some(current) = to_visit.pop()` loop
reach_step(R, st) ==
    LET n == Len(st.to_visit)
        current == st.to_visit[n]
        rest == SubSeq(st.to_visit, 1, n - 1)
    IN  IF current \in st.reachable
        THEN [reachable |-> st.reachable, to_visit |-> rest]
        ELSE LET seen == st.reachable \cup {current}
                 deps == get_dependencies(R, current)
             IN  [reachable |-> seen,
                  to_visit |-> rest \o SeqOfSet({d \in deps : d \notin seen})]

reach_start(start_id) == [reachable |-> {}, to_visit |-> <<start_id>>]

\* the query is sent before the node is looked up in `reachable`
reach_fetches_always(st) == TRUE

\* the turn gets past `if reachable.contains(&current) { continue; }` and
\* sends the get_dependencies query for the node it popped
reach_fetches(st) == st.to_visit[Len(st.to_visit)] \notin st.reachable

\* the get_dependencies queries sent so far, with the node of the turn added
\* when the turn sends one
reach_fetched(fetched, st) ==
    IF reach_fetches(st)
    THEN fetched (+) SetToBag({st.to_visit[Len(st.to_visit)]})
    ELSE fetched

RECURSIVE reach_loop(_, _)
reach_loop(R, st) ==
    IF st.to_visit = <<>> THEN st.reachable ELSE reach_loop(R, reach_step(R, st))

get_reachable_nodes(R, start_id) == reach_loop(R, reach_start(start_id))

would_create_cycle_from_source(R, from_id, to_id) == to_id \in get_reachable_nodes(R, from_id) \ {from_id}

would_create_cycle(R, from_id, to_id) == from_id \in get_reachable_nodes(R, to_id)

Relation(from_id, to_id, type, metadata, created_at) ==
    [from_id |-> from_id, to_id |-> to_id, relation_type |-> RelationType_as_str(type),
     metadata |-> metadata, created_at |-> created_at]

SameEdge(r, from_id, to_id, type) ==
    r.from_id = from_id /\ r.to_id = to_id /\ r.relation_type = RelationType_as_str(type)

\* a plain INSERT into a table without a key: the new row is added to the old ones
upsert_relation_appends(R, row) == R \cup {row}

\* INSERT OR REPLACE INTO relations: the row of the same triple is replaced
upsert_relation(R, row) ==
    {r \in R : ~(r.from_id = row.from_id /\ r.to_id = row.to_id
                 /\ r.relation_type = row.relation_type)} \cup {row}

\* foreign keys of relations: both ends are ids of stored expertises
relation_fk_ok(E, from_id, to_id) ==
    (\E e \in E : e.id = from_id) /\ (\E e \in E : e.id = to_id)

\* ON DELETE CASCADE of relations and of tags
cascade_relations(R, id) == {r \in R : r.from_id # id /\ r.to_id # id}
cascade_tags(T, id) == [p \in {q \in DOMAIN T : q[1] # id} |-> T[p]]

----------------------------------------------------------------------------
(* storage.rs: the expertises, tags and versions tables                    *)

ExpertiseRow(e) ==
    [id |-> e.id, version |-> e.version, scope |-> Scope_as_str(e.scope),
     created_at |-> e.created_at, updated_at |-> e.updated_at,
     data_json |-> to_json(e), description |-> description(e)]

RowsOf(E, id, scope) == {r \in E : r.id = id /\ r.scope = Scope_as_str(scope)}

exists_never(E, id, scope) == FALSE

exists_any_scope(E, id, scope) == Cardinality({r \in E : r.id = id}) > 0

\* SELECT COUNT(*) ... WHERE id = ? AND scope = ?;  row.0 > 0
exists(E, id, scope) == Cardinality(RowsOf(E, id, scope)) > 0

\* SELECT data_json ... fetch_optional, then Expertise::from_json
get(E, id, scope) ==
    IF RowsOf(E, id, scope) = {} THEN None
    ELSE Some(from_json((CHOOSE r \in RowsOf(E, id, scope) : TRUE).data_json))

\* the `for tag in expertise.tags()` loop of INSERT INTO tags
RECURSIVE insert_tags(_, _, _)
insert_tags(T, id, tgs) ==
    IF tgs = <<>> THEN T
    ELSE insert_tags(T (+) SetToBag({<<id, Head(tgs)>>}), id, Tail(tgs))

\* DELETE FROM tags WHERE expertise_id = ?
delete_tags(T, id) == [p \in {q \in DOMAIN T : q[1] # id} |-> T[p]]

VersionRow(e, t) ==
    [expertise_id |-> e.id, version |-> e.version, created_at |-> t, data_json |-> to_json(e)]

\* INSERT OR IGNORE: an older row of the same (expertise_id, version) is kept
save_version_keeps_first(V, e, t) ==
    IF \E v \in V : v.expertise_id = e.id /\ v.version = e.version
    THEN V ELSE V \cup {VersionRow(e, t)}

\* plain INSERT: a row is added whatever the table holds
save_version_appends(V, e, t) == V \cup {VersionRow(e, t)}

\* INSERT OR REPLACE INTO versions: the row of the same (expertise_id, version) is replaced
save_version(V, e, t) ==
    {v \in V : ~(v.expertise_id = e.id /\ v.version = e.version)} \cup {VersionRow(e, t)}

get_version(V, id, version) ==
    LET rows == {v \in V : v.expertise_id = id /\ v.version = version}
    IN  IF rows = {} THEN None ELSE Some(from_json((CHOOSE v \in rows : TRUE).data_json))

\* UPDATE expertises SET version, updated_at, data_json, description WHERE id AND scope
update_rows(E, e) ==
    {IF r.id = e.id /\ r.scope = Scope_as_str(e.scope)
        THEN [r EXCEPT !.version = e.version, !.updated_at = e.updated_at,
                       !.data_json = to_json(e), !.description = description(e)]
        ELSE r : r \in E}

----------------------------------------------------------------------------
(* storage.rs: Storage::create, update, delete                             *)

\* the tag rows are inserted before the existence check is consulted
create_tags_before_check(e) ==
    IF exists(expertises, e.id, e.scope)
    THEN /\ tags' = insert_tags(tags, e.id, e.tags)
         /\ last' = Ret("create", "AlreadyExists", e.id, e.scope, "-")
         /\ UNCHANGED <<expertises, relations, versions, now, calls>>
    ELSE /\ expertises' = expertises \cup {ExpertiseRow(e)}
         /\ tags' = insert_tags(tags, e.id, e.tags)
         /\ last' = Ret("create", "Ok", e.id, e.scope, "-")
         /\ UNCHANGED <<relations, versions, now, calls>>

create(e) ==
    IF exists(expertises, e.id, e.scope)
    THEN /\ last' = Ret("create", "AlreadyExists", e.id, e.scope, "-")
         /\ UNCHANGED <<tables, now, calls>>
    ELSE /\ expertises' = expertises \cup {ExpertiseRow(e)}
         /\ tags' = insert_tags(tags, e.id, e.tags)
         /\ last' = Ret("create", "Ok", e.id, e.scope, "-")
         /\ UNCHANGED <<relations, versions, now, calls>>

update(e) ==
    IF ~exists(expertises, e.id, e.scope)
    THEN /\ last' = Ret("update", "NotFound", e.id, e.scope, "-")
         /\ UNCHANGED <<tables, now, calls>>
    ELSE LET existing == get(expertises, e.id, e.scope)
             stamped == touch(e, now)
         IN  /\ versions' = IF existing # None
                            THEN save_version(versions, Unwrap(existing), now) ELSE versions
             /\ expertises' = update_rows(expertises, stamped)
             /\ tags' = insert_tags(delete_tags(tags, e.id), e.id, e.tags)
             /\ last' = Ret("update", "Ok", e.id, e.scope, "-")
             /\ UNCHANGED <<relations, now, calls>>

\* foreign keys are not enforced: the row is removed and nothing cascades
delete_no_cascade(id, scope) ==
    IF RowsOf(expertises, id, scope) = {}
    THEN /\ last' = Ret("delete", "NotFound", id, scope, "-")
         /\ UNCHANGED <<tables, now, calls>>
    ELSE /\ expertises' = expertises \ RowsOf(expertises, id, scope)
         /\ last' = Ret("delete", "Ok", id, scope, "-")
         /\ UNCHANGED <<tags, relations, versions, now, calls>>

\* the cascade runs whether or not a row was removed
delete_cascades_always(id, scope) ==
    /\ expertises' = expertises \ RowsOf(expertises, id, scope)
    /\ tags' = cascade_tags(tags, id)
    /\ relations' = cascade_relations(relations, id)
    /\ last' = Ret("delete", IF RowsOf(expertises, id, scope) = {} THEN "NotFound" ELSE "Ok",
                   id, scope, "-")
    /\ UNCHANGED <<versions, now, calls>>

\* the removed state is archived before the row goes
delete_archives(id, scope) ==
    IF RowsOf(expertises, id, scope) = {}
    THEN /\ last' = Ret("delete", "NotFound", id, scope, "-")
         /\ UNCHANGED <<tables, now, calls>>
    ELSE /\ expertises' = expertises \ RowsOf(expertises, id, scope)
         /\ tags' = cascade_tags(tags, id)
         /\ relations' = cascade_relations(relations, id)
         /\ versions' = save_version(versions, Unwrap(get(expertises, id, scope)), now)
         /\ last' = Ret("delete", "Ok", id, scope, "-")
         /\ UNCHANGED <<now, calls>>

delete(id, scope) ==
    IF RowsOf(expertises, id, scope) = {}
    THEN /\ last' = Ret("delete", "NotFound", id, scope, "-")
         /\ UNCHANGED <<tables, now, calls>>
    ELSE /\ expertises' = expertises \ RowsOf(expertises, id, scope)
         /\ tags' = cascade_tags(tags, id)
         /\ relations' = cascade_relations(relations, id)
         /\ last' = Ret("delete", "Ok", id, scope, "-")
         /\ UNCHANGED <<versions, now, calls>>

----------------------------------------------------------------------------
(* graph.rs: GraphOperations::create_relation, delete_relation             *)

\* the edge is written before the cycle check is consulted
create_relation_write_first(from_id, to_id, type, metadata) ==
    IF ~relation_fk_ok(expertises, from_id, to_id)
    THEN /\ last' = Ret("create_relation", "Database", from_id, to_id, type)
         /\ UNCHANGED <<tables, now, calls>>
    ELSE /\ relations' = upsert_relation(relations, Relation(from_id, to_id, type, metadata, now))
         /\ last' = Ret("create_relation",
                        IF would_create_cycle(relations, from_id, to_id)
                        THEN "CircularDependency" ELSE "Ok", from_id, to_id, type)
         /\ UNCHANGED <<expertises, tags, versions, now, calls>>

\* the cycle check is run for the dependency types only
create_relation_skips_conflicts(from_id, to_id, type, metadata) ==
    IF type # "Conflicts" /\ would_create_cycle(relations, from_id, to_id)
    THEN /\ last' = Ret("create_relation", "CircularDependency", from_id, to_id, type)
         /\ UNCHANGED <<tables, now, calls>>
    ELSE IF ~relation_fk_ok(expertises, from_id, to_id)
    THEN /\ last' = Ret("create_relation", "Database", from_id, to_id, type)
         /\ UNCHANGED <<tables, now, calls>>
    ELSE /\ relations' = upsert_relation(relations, Relation(from_id, to_id, type, metadata, now))
         /\ last' = Ret("create_relation", "Ok", from_id, to_id, type)
         /\ UNCHANGED <<expertises, tags, versions, now, calls>>

create_relation(from_id, to_id, type, metadata) ==
    IF would_create_cycle(relations, from_id, to_id)
    THEN /\ last' = Ret("create_relation", "CircularDependency", from_id, to_id, type)
         /\ UNCHANGED <<tables, now, calls>>
    ELSE IF ~relation_fk_ok(expertises, from_id, to_id)
    THEN /\ last' = Ret("create_relation", "Database", from_id, to_id, type)
         /\ UNCHANGED <<tables, now, calls>>
    ELSE /\ relations' = upsert_relation(relations, Relation(from_id, to_id, type, metadata, now))
         /\ last' = Ret("create_relation", "Ok", from_id, to_id, type)
         /\ UNCHANGED <<expertises, tags, versions, now, calls>>

\* DELETE FROM relations WHERE from_id = ? AND to_id = ?: every type goes
delete_relation_any_type(from_id, to_id, type) ==
    /\ relations' = {r \in relations : ~(r.from_id = from_id /\ r.to_id = to_id)}
    /\ last' = Ret("delete_relation", "Ok", from_id, to_id, type)
    /\ UNCHANGED <<expertises, tags, versions, now, calls>>

\* a call that reports a missing triple, as Storage::delete does for a missing row
delete_relation_not_found(from_id, to_id, type) ==
    /\ relations' = {r \in relations : ~SameEdge(r, from_id, to_id, type)}
    /\ last' = Ret("delete_relation",
                   IF \E r \in relations : SameEdge(r, from_id, to_id, type)
                   THEN "Ok" ELSE "NotFound",
                   from_id, to_id, type)
    /\ UNCHANGED <<expertises, tags, versions, now, calls>>

delete_relation(from_id, to_id, type) ==
    /\ relations' = {r \in relations : ~SameEdge(r, from_id, to_id, type)}
    /\ last' = Ret("delete_relation", "Ok", from_id, to_id, type)
    /\ UNCHANGED <<expertises, tags, versions, now, calls>>

----------------------------------------------------------------------------
(* create_relation as the pool runs it: every awaited statement is a step  *)
(* of its own, and the steps of two calls interleave.                      *)

Procs == {"p1", "p2"}

IdleCall ==
    [pc |-> "idle", from_id |-> "-", to_id |-> "-", type |-> "-",
     reachable |-> {}, to_visit |-> <<>>, fetched |-> EmptyBag, result |-> "-"]

\* the call is made: get_reachable_nodes(to_id) starts
call_start(p, from_id, to_id, type) ==
    /\ calls[p].pc = "idle"
    /\ calls' = [calls EXCEPT ![p] =
                   [pc |-> "visit", from_id |-> from_id, to_id |-> to_id, type |-> type,
                    reachable |-> reach_start(to_id).reachable,
                    to_visit |-> reach_start(to_id).to_visit, fetched |-> EmptyBag,
                    result |-> "-"]]
    /\ UNCHANGED <<tables, now, last>>

\* one turn of the traversal loop: one get_dependencies query on the table as it is now
call_visit(p) ==
    /\ calls[p].pc = "visit"
    /\ calls[p].to_visit # <<>>
    /\ LET before == [reachable |-> calls[p].reachable, to_visit |-> calls[p].to_visit]
           st == reach_step(relations, before)
       IN  calls' = [calls EXCEPT ![p].reachable = st.reachable, ![p].to_visit = st.to_visit,
                                  ![p].fetched = reach_fetched(calls[p].fetched, before)]
    /\ UNCHANGED <<tables, now, last>>

\* the work-list is empty: would_create_cycle answers reachable.contains(from_id)
call_checked(p) ==
    /\ calls[p].pc = "visit"
    /\ calls[p].to_visit = <<>>
    /\ IF calls[p].from_id \in calls[p].reachable
       THEN calls' = [calls EXCEPT ![p].pc = "done", ![p].result = "CircularDependency"]
       ELSE calls' = [calls EXCEPT ![p].pc = "write"]
    /\ UNCHANGED <<tables, now, last>>

\* the write step of a call that looks at the table again before it inserts
call_write_rechecked(p) ==
    /\ calls[p].pc = "write"
    /\ IF would_create_cycle(relations, calls[p].from_id, calls[p].to_id)
       THEN /\ calls' = [calls EXCEPT ![p].pc = "done", ![p].result = "CircularDependency"]
            /\ UNCHANGED relations
       ELSE IF ~relation_fk_ok(expertises, calls[p].from_id, calls[p].to_id)
       THEN /\ calls' = [calls EXCEPT ![p].pc = "done", ![p].result = "Database"]
            /\ UNCHANGED relations
       ELSE /\ relations' = upsert_relation(relations,
                   Relation(calls[p].from_id, calls[p].to_id, calls[p].type, NULL, now))
            /\ calls' = [calls EXCEPT ![p].pc = "done", ![p].result = "Ok"]
    /\ UNCHANGED <<expertises, tags, versions, now, last>>

\* INSERT OR REPLACE INTO relations, then Ok(())
call_write(p) ==
    /\ calls[p].pc = "write"
    /\ IF ~relation_fk_ok(expertises, calls[p].from_id, calls[p].to_id)
       THEN /\ calls' = [calls EXCEPT ![p].pc = "done", ![p].result = "Database"]
            /\ UNCHANGED relations
       ELSE /\ relations' = upsert_relation(relations,
                   Relation(calls[p].from_id, calls[p].to_id, calls[p].type, NULL, now))
            /\ calls' = [calls EXCEPT ![p].pc = "done", ![p].result = "Ok"]
    /\ UNCHANGED <<expertises, tags, versions, now, last>>

----------------------------------------------------------------------------
(* Storage::update as the pool runs it: no transaction is opened, every    *)
(* awaited statement is a step of its own, and the steps of two calls      *)
(* interleave.  A call record keeps the locals of the future: the argument *)
(* `expertise`, the `existing` it read, the tags still to insert; the field*)
(* `overwrote` notes the stored state its UPDATE statement replaced.       *)

UpdateCall(pc, e, existing, overwrote, todo, result) ==
    [pc |-> pc, expertise |-> e, existing |-> existing, overwrote |-> overwrote,
     todo |-> todo, result |-> result]

\* the call is made; the first statement awaited is self.exists(&id, scope)
update_call(p, e) ==
    /\ calls[p].pc = "idle"
    /\ calls' = [calls EXCEPT ![p] = UpdateCall("exists", e, None, None, <<>>, "-")]
    /\ UNCHANGED <<tables, now, last>>

\* if !self.exists(&id, scope).await? { return Err(Error::NotFound) }
update_exists(p) ==
    /\ calls[p].pc = "exists"
    /\ IF ~exists(expertises, calls[p].expertise.id, calls[p].expertise.scope)
       THEN calls' = [calls EXCEPT ![p].pc = "done", ![p].result = "NotFound"]
       ELSE calls' = [calls EXCEPT ![p].pc = "get"]
    /\ UNCHANGED <<tables, now, last>>

\* if let Some(existing) = self.get(&id, scope).await?
update_get(p) ==
    /\ calls[p].pc = "get"
    /\ LET existing == get(expertises, calls[p].expertise.id, calls[p].expertise.scope)
       IN  calls' = [calls EXCEPT ![p].existing = existing,
                                  ![p].pc = IF existing # None THEN "save" ELSE "write"]
    /\ UNCHANGED <<tables, now, last>>

\* the snapshot and the overwrite of the row are made in one statement
update_save_version_and_write(p) ==
    /\ calls[p].pc = "save"
    /\ versions' = save_version(versions, Unwrap(calls[p].existing), now)
    /\ expertises' = update_rows(expertises, touch(calls[p].expertise, now))
    /\ calls' = [calls EXCEPT ![p].pc = "tags_delete",
                              ![p].overwrote = get(expertises, calls[p].expertise.id,
                                                   calls[p].expertise.scope)]
    /\ UNCHANGED <<tags, relations, now, last>>

\* self.save_version(&existing).await?
update_save_version(p) ==
    /\ calls[p].pc = "save"
    /\ versions' = save_version(versions, Unwrap(calls[p].existing), now)
    /\ calls' = [calls EXCEPT ![p].pc = "write"]
    /\ UNCHANGED <<expertises, tags, relations, now, last>>

\* expertise.metadata.touch(); UPDATE expertises SET ... WHERE id = ? AND scope = ?
update_write(p) ==
    /\ calls[p].pc = "write"
    /\ expertises' = update_rows(expertises, touch(calls[p].expertise, now))
    /\ calls' = [calls EXCEPT ![p].pc = "tags_delete",
                              ![p].overwrote = get(expertises, calls[p].expertise.id,
                                                   calls[p].expertise.scope)]
    /\ UNCHANGED <<tags, relations, versions, now, last>>

\* DELETE FROM tags WHERE expertise_id = ?
update_delete_tags(p) ==
    /\ calls[p].pc = "tags_delete"
    /\ tags' = delete_tags(tags, calls[p].expertise.id)
    /\ calls' = [calls EXCEPT ![p].pc = "tags_insert", ![p].todo = calls[p].expertise.tags]
    /\ UNCHANGED <<expertises, relations, versions, now, last>>

\* one turn of `for tag in expertise.tags()`, or Ok(()) when the loop is over
update_insert_tag(p) ==
    /\ calls[p].pc = "tags_insert"
    /\ IF calls[p].todo = <<>>
       THEN /\ calls' = [calls EXCEPT ![p].pc = "done", ![p].result = "Ok"]
            /\ UNCHANGED tags
       ELSE /\ tags' = insert_tags(tags, calls[p].expertise.id, <<Head(calls[p].todo)>>)
            /\ calls' = [calls EXCEPT ![p].todo = Tail(calls[p].todo)]
    /\ UNCHANGED <<expertises, relations, versions, now, last>>

\* the future is dropped (or the process ends) after save_version returned and
\* before the UPDATE statement is sent
update_stop(p) ==
    /\ calls[p].pc = "write"
    /\ calls' = [calls EXCEPT ![p].pc = "stopped"]
    /\ UNCHANGED <<tables, now, last>>

\* a second passes on the wall clock
Tick ==
    /\ now < MaxNow
    /\ now' = now + 1
    /\ UNCHANGED <<tables, last, calls>>

----------------------------------------------------------------------------
(* The state after Database::open on a fresh file: four empty tables.      *)

Init ==
    /\ expertises = {}
    /\ tags = EmptyBag
    /\ relations = {}
    /\ versions = {}
    /\ now = 0
    /\ last = Ret("open", "Ok", "-", "-", "-")
    /\ calls = [p \in Procs |-> IdleCall]

----------------------------------------------------------------------------
(* Sequential specification of the relation graph: expertises are created  *)
(* and deleted, relations are created and deleted, one call at a time.     *)

\* the relation types the graph specifications draw from: two dependency types
\* (Extends is handled like them by every statement) and Conflicts
GraphTypes == {"Uses", "Requires", "Conflicts"}

GraphExpertise(id) == Expertise_new(id, "1.0.0", "d", <<>>, "c", "Personal", 0, 0)

GraphCreate == \E id \in Ids : create(GraphExpertise(id))

GraphDelete == \E id \in Ids : delete(id, "Personal")

GraphCreateRelation ==
    \E from_id \in Ids, to_id \in Ids, type \in GraphTypes :
        /\ Cardinality(relations) < MaxEdges
           \/ \E r \in relations : SameEdge(r, from_id, to_id, type)
        /\ create_relation(from_id, to_id, type, NULL)

GraphDeleteRelation ==
    \E from_id \in Ids, to_id \in Ids, type \in GraphTypes :
        delete_relation(from_id, to_id, type)

NextGraph == GraphCreate \/ GraphDelete \/ GraphCreateRelation \/ GraphDeleteRelation

SpecGraph == Init /\ [][NextGraph]_vars

----------------------------------------------------------------------------
(* The step is a call of method op that returns (Tick is the only step     *)
(* that moves the clock, and it leaves `last` alone).                      *)

Returned(op) == last'.op = op /\ now' = now

----------------------------------------------------------------------------
(* Reachability along dependency edges, stated on the table itself.        *)

DepTypes == {"uses", "extends", "requires"}

DepEdges(R) == {<<r.from_id, r.to_id>> : r \in {x \in R : x.relation_type \in DepTypes}}

RECURSIVE Grow(_, _)
Grow(R, S) ==
    LET bigger == S \cup {d[2] : d \in {x \in DepEdges(R) : x[1] \in S}}
    IN  IF bigger = S THEN S ELSE Grow(R, bigger)

\* start and every node a path of dependency edges leads to from it
ReachableFrom(R, start) == Grow(R, {start})

HasCycle(R) == \E d \in DepEdges(R) : d[1] \in ReachableFrom(R, d[2])

StoredIds == {e.id : e \in expertises}

HasEdge(R, from_id, to_id, type) == \E r \in R : SameEdge(r, from_id, to_id, type)

----------------------------------------------------------------------------
(* C1: under sequential create_relation, delete_relation and expertise     *)
(* delete calls, starting from an empty relations table, the Uses/Extends/ *)
(* Requires edges never form a cycle, self-loops included.                 *)
C1_Acyclic == ~HasCycle(relations)

\* a chain of two dependency edges is stored and a call that would have
\* closed it was just rejected
C1_Witness ==
    /\ last.op = "create_relation" /\ last.result = "CircularDependency"
    /\ last.a # last.b
    /\ Cardinality(DepEdges(relations)) >= 2

(* C2 as amended: create_relation(from, to, type, _) returns               *)
(* CircularDependency exactly when from is reachable from to (to included) *)
(* along stored dependency edges; otherwise, when from and to are both ids *)
(* of stored expertises, it returns Ok and the edge (from, to, type) is    *)
(* stored afterwards; when one of them is not, the insert is refused and   *)
(* the table is left as it was.                                            *)
C2_CycleCheckExact ==
    [][Returned("create_relation") =>
          /\ (last'.result = "CircularDependency")
                 <=> (last'.a \in ReachableFrom(relations, last'.b))
          /\ (last'.result # "CircularDependency" /\ {last'.a, last'.b} \subseteq StoredIds)
                 => (last'.result = "Ok" /\ HasEdge(relations', last'.a, last'.b, last'.t))
          /\ (last'.result # "CircularDependency" /\ ~({last'.a, last'.b} \subseteq StoredIds))
                 => (last'.result = "Database" /\ relations' = relations)]_vars

(* C2 as written: create_relation fails with CircularDependency exactly    *)
(* when from is reachable from to; otherwise it succeeds and the edge      *)
(* (from, to, type) is stored afterwards.                                  *)
C2_Original ==
    [][Returned("create_relation") =>
          /\ (last'.result = "CircularDependency")
                 <=> (last'.a \in ReachableFrom(relations, last'.b))
          /\ (last'.result # "CircularDependency")
                 => (last'.result = "Ok" /\ HasEdge(relations', last'.a, last'.b, last'.t))]_vars

\* with Uses edges a->b and b->c stored, c->a was refused
C2_Witness ==
    /\ HasEdge(relations, "a", "b", "Uses") /\ HasEdge(relations, "b", "c", "Uses")
    /\ last = Ret("create_relation", "CircularDependency", "c", "a", "Uses")

\* with Uses edges a->b and b->c stored, the shortcut a->c was accepted
C2_WitnessShortcut ==
    /\ HasEdge(relations, "a", "b", "Uses") /\ HasEdge(relations, "b", "c", "Uses")
    /\ HasEdge(relations, "a", "c", "Uses")
    /\ last = Ret("create_relation", "Ok", "a", "c", "Uses")

(* C3: a create_relation call that returns CircularDependency leaves the   *)
(* relations table exactly as it was: no row added, removed or rewritten.  *)
C3_RejectedWriteHasNoEffect ==
    [][(Returned("create_relation") /\ last'.result = "CircularDependency")
          => relations' = relations]_vars

\* a call between two distinct stored expertises was rejected while edges are stored
C3_Witness ==
    /\ last.op = "create_relation" /\ last.result = "CircularDependency"
    /\ last.a # last.b /\ {last.a, last.b} \subseteq StoredIds
    /\ relations # {}

----------------------------------------------------------------------------
(* Concurrent specification of create_relation: expertises are created,    *)
(* then each of two tasks makes one create_relation call; the statements   *)
(* of the two calls interleave freely.                                     *)

RaceTypes == {"Uses", "Conflicts"}

RaceStart == \E p \in Procs, from_id \in Ids, to_id \in Ids, type \in RaceTypes :
                 call_start(p, from_id, to_id, type)

RaceVisit == \E p \in Procs : call_visit(p)

RaceChecked == \E p \in Procs : call_checked(p)

RaceWrite == \E p \in Procs : call_write(p)

NextRace == GraphCreate \/ RaceStart \/ RaceVisit \/ RaceChecked \/ RaceWrite

SpecRace == Init /\ [][NextRace]_vars

(* C4: two concurrent create_relation calls for different dependency edges *)
(* can both finish their cycle check before either writes: a call whose    *)
(* check has passed writes its edge and returns Ok whatever the other call *)
(* has stored in the meantime, so both edges of a cycle get stored.        *)
C4_WriteFollowsStaleCheck ==
    [][\A p \in Procs :
          (calls[p].pc = "write" /\ calls'[p].pc = "done"
             /\ relation_fk_ok(expertises, calls[p].from_id, calls[p].to_id))
          => /\ calls'[p].result = "Ok"
             /\ HasEdge(relations', calls[p].from_id, calls[p].to_id, calls[p].type)]_vars

\* both calls returned Ok, a->b and b->a are both stored, and each call alone,
\* made on the table the other one leaves, is refused
C4_Witness ==
    /\ \A p \in Procs : calls[p].pc = "done" /\ calls[p].result = "Ok"
    /\ HasEdge(relations, "a", "b", "Uses") /\ HasEdge(relations, "b", "a", "Uses")
    /\ HasCycle(relations)
    /\ \A p \in Procs :
          would_create_cycle({r \in relations :
                                 ~SameEdge(r, calls[p].from_id, calls[p].to_id, calls[p].type)},
                             calls[p].from_id, calls[p].to_id)

----------------------------------------------------------------------------
(* Sequential specification of the expertise store: create, update and     *)
(* delete calls, one at a time, on the keys (a, Personal) and (a, Company),*)
(* with the clock advancing between calls or not.                          *)

StoreIds == {"a"}

StoreScopes == {"Personal", "Company"}

\* what a caller fills in: version, description, tags, content
Payloads ==
    {[version |-> "1.0.0", description |-> "d1", tags |-> <<"t1">>, content |-> "c1"],
     [version |-> "2.0.0", description |-> "d2", tags |-> <<"t2", "t1">>, content |-> "c2"],
     [version |-> "1.0.0", description |-> "d2", tags |-> <<>>, content |-> "c2"]}

\* Expertise::new stamps created_at and updated_at with the current second
StoreExpertise(id, scope, pl) ==
    Expertise_new(id, pl.version, pl.description, pl.tags, pl.content, scope, now, now)

StoreInputs == {StoreExpertise(id, scope, pl) : id \in StoreIds, scope \in StoreScopes, pl \in Payloads}

StoreCreate == \E e \in StoreInputs : create(e)

StoreUpdate == \E e \in StoreInputs : update(e)

StoreDelete == \E id \in StoreIds, scope \in StoreScopes : delete(id, scope)

NextStore == Tick \/ StoreCreate \/ StoreUpdate \/ StoreDelete

SpecStore == Init /\ [][NextStore]_vars

----------------------------------------------------------------------------
(* What is stored under a key, read off the tables themselves.             *)

Stored(id, scope) == \E r \in expertises : r.id = id /\ r.scope = Scope_as_str(scope)

(* C5: after any sequence of create, update and delete calls at most one   *)
(* expertise row is stored for each (id, scope) pair.                      *)
C5_UniqueKey ==
    \A r1 \in expertises, r2 \in expertises :
        (r1.id = r2.id /\ r1.scope = r2.scope) => r1 = r2

\* a create on an occupied key was just refused while both scopes of the id are stored
C5_Witness ==
    /\ last.op = "create" /\ last.result = "AlreadyExists"
    /\ Cardinality(expertises) = 2

(* C6: create(e) on a key (e.id, e.scope) that is already stored returns   *)
(* AlreadyExists, and the expertise rows, the tag rows and the version     *)
(* archive are the same after the call as before it.                       *)
C6_CreateExistingFails ==
    [][(Returned("create") /\ Stored(last'.a, last'.b))
          => /\ last'.result = "AlreadyExists"
             /\ expertises' = expertises /\ tags' = tags /\ versions' = versions]_vars

\* the refused create found an expertise with tag rows and an archived version
C6_Witness ==
    /\ last.op = "create" /\ last.result = "AlreadyExists"
    /\ Stored(last.a, last.b)
    /\ tags # EmptyBag /\ versions # {}

C8_UpdateMissingFails ==
    [][(Returned("update") /\ ~Stored(last'.a, last'.b))
          => /\ last'.result = "NotFound"
             /\ expertises' = expertises /\ tags' = tags /\ versions' = versions]_vars

\* update was refused for a key whose id is stored in the other scope
C8_Witness ==
    /\ last.op = "update" /\ last.result = "NotFound"
    /\ ~Stored(last.a, last.b)
    /\ \E r \in expertises : r.id = last.a
    /\ tags # EmptyBag

(* C9: after a successful update(e') of a stored expertise e,              *)
(* get_version(e.id, v_old), v_old being the version e carried before the  *)
(* call, returns exactly e as it was stored immediately before the update. *)
C9_SnapshotOfOldState ==
    [][(Returned("update") /\ last'.result = "Ok")
          => /\ get(expertises, last'.a, last'.b) # None
             /\ get_version(versions', last'.a,
                            Unwrap(get(expertises, last'.a, last'.b)).version)
                    = get(expertises, last'.a, last'.b)]_vars

\* an update succeeded and the archive holds a snapshot whose version differs
\* from the version now stored
C9_Witness ==
    /\ last.op = "update" /\ last.result = "Ok"
    /\ get(expertises, last.a, last.b) # None
    /\ \E v \in versions :
          /\ v.expertise_id = last.a
          /\ v.version # Unwrap(get(expertises, last.a, last.b)).version

(* C10: after a successful update(e') of a stored expertise e, get returns *)
(* e' (its version, description, tags and content) with an updated_at      *)
(* strictly greater than the one stored before, however soon the update    *)
(* follows the create or the previous update.                              *)
C10_UpdatedAtStrictlyGreater ==
    [][Returned("update") =>
          \A e \in StoreInputs :
              (update(e) /\ Stored(e.id, e.scope))
              => LET old == Unwrap(get(expertises, e.id, e.scope))
                     new == Unwrap(get(expertises', e.id, e.scope))
                 IN  /\ last'.result = "Ok"
                     /\ new.version = e.version /\ new.description = e.description
                     /\ new.tags = e.tags /\ new.content = e.content
                     /\ new.updated_at > old.updated_at]_vars

----------------------------------------------------------------------------
(* Concurrent specification of update: the expertise (a, Personal) is      *)
(* created at version 1.0.0, then each of two tasks makes one update call  *)
(* for it, each with a version string of its own choice that is not        *)
(* 1.0.0; the statements of the two calls interleave freely, and a call    *)
(* may stop between its snapshot and its UPDATE statement.                 *)

UpdPayloads ==
    {[version |-> "2.0.0", description |-> "d2", tags |-> <<"t2">>, content |-> "c2"],
     [version |-> "3.0.0", description |-> "d3", tags |-> <<"t1", "t3">>, content |-> "c3"]}

UpdCreated == Expertise_new("a", "1.0.0", "d1", <<"t1">>, "c1", "Personal", now, now)

UpdInputs ==
    {Expertise_new("a", pl.version, pl.description, pl.tags, pl.content, "Personal", now, now) :
        pl \in UpdPayloads}

UpdCreate == create(UpdCreated)

UpdCall == \E p \in Procs, e \in UpdInputs : update_call(p, e)

UpdExists == \E p \in Procs : update_exists(p)

UpdGet == \E p \in Procs : update_get(p)

UpdSaveVersion == \E p \in Procs : update_save_version(p)

UpdWrite == \E p \in Procs : update_write(p)

UpdDeleteTags == \E p \in Procs : update_delete_tags(p)

UpdInsertTag == \E p \in Procs : update_insert_tag(p)

UpdStop == \E p \in Procs : update_stop(p)

NextUpdate ==
    \/ UpdCreate \/ UpdCall \/ UpdExists \/ UpdGet \/ UpdSaveVersion
    \/ UpdWrite \/ UpdDeleteTags \/ UpdInsertTag \/ UpdStop

SpecUpdate == Init /\ [][NextUpdate]_vars

\* no call is running: each task is idle, has returned, or has stopped
AllReturned == \A p \in Procs : calls[p].pc \in {"idle", "done", "stopped"}

(* C11: for any interleaving of update calls on the same expertise, every  *)
(* stored state that an update overwrote was archived first: once all      *)
(* calls have returned, get_version returns each overwritten state under   *)
(* the version string it carried.                                          *)
C11_ArchivedBeforeOverwrite ==
    AllReturned =>
        \A p \in Procs :
            (calls[p].pc = "done" /\ calls[p].result = "Ok" /\ calls[p].overwrote # None)
            => get_version(versions, calls[p].expertise.id, Unwrap(calls[p].overwrote).version)
                   = calls[p].overwrote

(* C12: update's archive-then-overwrite sequence is not atomic.  The step  *)
(* that archives writes the versions table only, so right after it         *)
(* get_version(id, v) returns the snapshot while get(id, scope) still      *)
(* returns the expertise at version v; and a call that stops between the   *)
(* two steps leaves the snapshot, the expertise row and the tag rows as    *)
(* they are.                                                               *)
C12_ArchiveThenOverwriteNotAtomic ==
    [][\A p \in Procs :
          /\ (calls[p].pc = "save" /\ calls'[p].pc # "save")
             => /\ calls'[p].pc = "write"
                /\ expertises' = expertises /\ tags' = tags
                /\ get_version(versions', calls[p].expertise.id,
                               Unwrap(calls[p].existing).version) = calls[p].existing
          /\ (calls[p].pc = "write" /\ calls'[p].pc = "stopped")
             => /\ versions' = versions /\ expertises' = expertises /\ tags' = tags]_vars

\* a call stopped between the two steps while no other call has been made:
\* the snapshot of version 1.0.0 is archived, get still returns the expertise
\* at version 1.0.0, and its tag row is the one create inserted
C12_Witness ==
    \E p \in Procs :
        /\ calls[p].pc = "stopped"
        /\ \A q \in Procs \ {p} : calls[q].pc = "idle"
        /\ get(expertises, "a", "Personal") # None
        /\ Unwrap(get(expertises, "a", "Personal")).version = "1.0.0"
        /\ get_version(versions, "a", "1.0.0") = get(expertises, "a", "Personal")
        /\ Unwrap(get(expertises, "a", "Personal")).version # calls[p].expertise.version
        /\ tags = SetToBag({<<"a", "t1">>})

----------------------------------------------------------------------------
(* Sequential specification of delete: the expertise a is created, updated *)
(* and deleted in the scopes Personal and Company, the expertise b in the  *)
(* scope Personal is created and deleted, and relations between a and b    *)
(* are created, one call at a time; the tag rows, the relation rows and    *)
(* the version rows are all populated.                                     *)

DelIds == {"a", "b"}

DelKeys == {<<"a", "Personal">>, <<"a", "Company">>, <<"b", "Personal">>}

DelCreated(id, scope) == Expertise_new(id, "1.0.0", "d1", <<"t1">>, "c1", scope, now, now)

DelUpdated(id, scope) == Expertise_new(id, "2.0.0", "d2", <<"t2">>, "c2", scope, now, now)

DelCreate == \E k \in DelKeys : create(DelCreated(k[1], k[2]))

DelUpdate == \E scope \in StoreScopes : update(DelUpdated("a", scope))

DelDelete == \E id \in DelIds, scope \in StoreScopes : delete(id, scope)

DelCreateRelation ==
    \E from_id \in DelIds, to_id \in DelIds, type \in RaceTypes :
        create_relation(from_id, to_id, type, NULL)

NextDelete == DelCreate \/ DelUpdate \/ DelDelete \/ DelCreateRelation

SpecDelete == Init /\ [][NextDelete]_vars

\* the tag rows of an id, as a bag
TagRowsOf(T, id) == [p \in {q \in DOMAIN T : q[1] = id} |-> T[p]]

\* the relation rows with the id at one end
Touching(R, id) == {r \in R : r.from_id = id \/ r.to_id = id}

(* C13: delete(id, scope) on a key that is not stored returns NotFound and *)
(* leaves the expertise rows, the tag rows, the relation rows and the      *)
(* version rows unchanged.                                                 *)
C13_DeleteMissingFails ==
    [][(Returned("delete") /\ ~Stored(last'.a, last'.b))
          => /\ last'.result = "NotFound"
             /\ expertises' = expertises /\ tags' = tags
             /\ relations' = relations /\ versions' = versions]_vars

\* delete was refused for a key whose id is stored in the other scope, with
\* tag rows, relations and snapshots of that id in the tables
C13_Witness ==
    /\ last.op = "delete" /\ last.result = "NotFound"
    /\ ~Stored(last.a, last.b)
    /\ \E r \in expertises : r.id = last.a
    /\ TagRowsOf(tags, last.a) # EmptyBag
    /\ Touching(relations, last.a) # {}
    /\ \E v \in versions : v.expertise_id = last.a

(* C14: after a successful delete(id, scope) of a stored expertise,        *)
(* get(id, scope) returns None, no tag row of the id remains, and no       *)
(* relation row with the id as from_id or to_id remains, whatever its      *)
(* relation type.                                                          *)
C14_DeleteRemovesRowTagsAndEdges ==
    [][(Returned("delete") /\ Stored(last'.a, last'.b))
          => /\ last'.result = "Ok"
             /\ get(expertises', last'.a, last'.b) = None
             /\ TagRowsOf(tags', last'.a) = EmptyBag
             /\ Touching(relations', last'.a) = {}]_vars

\* a was deleted after it had been updated (its snapshot is archived): no tag
\* row and no relation row names a any more, while b keeps its tag row
C14_Witness ==
    /\ last.op = "delete" /\ last.result = "Ok" /\ last.a = "a"
    /\ \E v \in versions : v.expertise_id = "a"
    /\ TagRowsOf(tags, "a") = EmptyBag /\ TagRowsOf(tags, "b") # EmptyBag
    /\ Touching(relations, "a") = {}
    /\ Stored("b", "Personal")

----------------------------------------------------------------------------
\* the tags that the tag rows of an id carry, and the elements of a Vec
TagSetOf(T, id) == {q[2] : q \in {x \in DOMAIN T : x[1] = id}}

Range(seq) == {seq[i] : i \in DOMAIN seq}

(* C15: after any sequence of create, update and delete calls, for every   *)
(* stored expertise (id, scope) the set of tag rows belonging to it equals *)
(* the expertise's current tag set: no stale tag of an earlier version is  *)
(* left and none is missing.                                               *)
C15_TagIndexInSync ==
    \A r \in expertises : TagSetOf(tags, r.id) = Range(from_json(r.data_json).tags)

----------------------------------------------------------------------------
(* storage.rs: Storage::list_versions.  A query with ORDER BY returns its  *)
(* rows in any order that the sort key allows: Orderings is the set of     *)
(* those row sequences, for a key that sorts descending.                   *)

Orderings(S, key(_)) ==
    {f \in [1..Cardinality(S) -> S] :
        /\ \A i, j \in 1..Cardinality(S) : i # j => f[i] # f[j]
        /\ \A i, j \in 1..Cardinality(S) : i < j => key(f[i]) >= key(f[j])}

VersionCreatedAt(v) == v.created_at

\* SELECT version FROM versions WHERE expertise_id = ? ORDER BY created_at DESC
list_versions(V, id) ==
    {[i \in DOMAIN rows |-> rows[i].version] :
        rows \in Orderings({v \in V : v.expertise_id = id}, VersionCreatedAt)}

VersionStrings == {pl.version : pl \in Payloads}

(* C16: create and delete never add a version snapshot: a create or delete *)
(* call leaves no row in the versions table that was not there before, so  *)
(* an empty list_versions(id) stays empty and a get_version(id, v) that    *)
(* returned None still returns None; snapshots come from update alone.     *)
C16_OnlyUpdateArchives ==
    [][(Returned("create") \/ Returned("delete"))
          => /\ versions' \subseteq versions
             /\ \A id \in StoreIds :
                   /\ list_versions(versions, id) = {<<>>} => list_versions(versions', id) = {<<>>}
                   /\ \A v \in VersionStrings :
                         get_version(versions, id, v) = None
                            => get_version(versions', id, v) = None]_vars

\* an expertise with one archived snapshot was deleted and created again:
\* the archive still lists that one snapshot and no other
C16_Witness ==
    /\ last.op = "create" /\ last.result = "Ok"
    /\ Cardinality(expertises) = 1
    /\ Unwrap(get(expertises, last.a, last.b)).version = "2.0.0"
    /\ list_versions(versions, last.a) = {<<"1.0.0">>}
    /\ get_version(versions, last.a, "2.0.0") = None

----------------------------------------------------------------------------
(* Sequential specification of the relation rows: expertises a and b are   *)
(* created, relations between them are created with or without metadata    *)
(* and deleted, one call at a time, with the clock advancing between calls *)
(* or not.                                                                 *)

EdgeMetadata == {NULL, "m1"}

EdgeCreate == \E id \in DelIds : create(GraphExpertise(id))

EdgeCreateRelation ==
    \E from_id \in DelIds, to_id \in DelIds, type \in RaceTypes, metadata \in EdgeMetadata :
        create_relation(from_id, to_id, type, metadata)

EdgeDeleteRelation ==
    \E from_id \in DelIds, to_id \in DelIds, type \in RaceTypes :
        delete_relation(from_id, to_id, type)

NextEdge == Tick \/ EdgeCreate \/ EdgeCreateRelation \/ EdgeDeleteRelation

SpecEdge == Init /\ [][NextEdge]_vars

EdgesOf(R, from_id, to_id, type) == {r \in R : SameEdge(r, from_id, to_id, type)}

(* C17 as amended: create_relation for a triple (from, to, type) that is   *)
(* already stored returns CircularDependency and changes nothing when from *)
(* is reachable from to along stored dependency edges (a stored Conflicts  *)
(* edge whose opposite dependency path was added later); otherwise it      *)
(* returns Ok and leaves exactly one edge with that triple, carrying the   *)
(* new metadata and a created_at not earlier than before, and the number   *)
(* of edges is unchanged.                                                  *)
C17_RecreateUpserts ==
    [][\A from_id \in DelIds, to_id \in DelIds, type \in RaceTypes, metadata \in EdgeMetadata :
          (create_relation(from_id, to_id, type, metadata)
             /\ HasEdge(relations, from_id, to_id, type))
          => IF from_id \in ReachableFrom(relations, to_id)
             THEN last'.result = "CircularDependency" /\ relations' = relations
             ELSE /\ last'.result = "Ok"
                  /\ Cardinality(EdgesOf(relations', from_id, to_id, type)) = 1
                  /\ \A r \in EdgesOf(relations', from_id, to_id, type) :
                        /\ r.metadata = metadata
                        /\ \A old \in EdgesOf(relations, from_id, to_id, type) :
                              r.created_at >= old.created_at
                  /\ Cardinality(relations') = Cardinality(relations)]_vars

(* C17 as written: create_relation for a triple that is already stored     *)
(* succeeds and leaves exactly one edge with that triple, carrying the new *)
(* metadata and a created_at not earlier than before; the number of edges  *)
(* is unchanged.                                                           *)
C17_Original ==
    [][\A from_id \in DelIds, to_id \in DelIds, type \in RaceTypes, metadata \in EdgeMetadata :
          (create_relation(from_id, to_id, type, metadata)
             /\ HasEdge(relations, from_id, to_id, type))
          => /\ last'.result = "Ok"
             /\ Cardinality(EdgesOf(relations', from_id, to_id, type)) = 1
             /\ \A r \in EdgesOf(relations', from_id, to_id, type) :
                   /\ r.metadata = metadata
                   /\ \A old \in EdgesOf(relations, from_id, to_id, type) :
                         r.created_at >= old.created_at
             /\ Cardinality(relations') = Cardinality(relations)]_vars

\* the stored Uses edge a->b was created again one second later with metadata:
\* one row of that triple, stamped with the later second, next to another edge
C17_Witness ==
    /\ last = Ret("create_relation", "Ok", "a", "b", "Uses")
    /\ now = 1
    /\ EdgesOf(relations, "a", "b", "Uses")
          = {Relation("a", "b", "Uses", "m1", 1)}
    /\ EdgesOf(relations, "a", "b", "Conflicts")
          = {Relation("a", "b", "Conflicts", NULL, 0)}

\* the stored Conflicts edge a->b was created again after the Uses edge b->a
\* had been added, and the call was refused
C17_WitnessRefused ==
    /\ last = Ret("create_relation", "CircularDependency", "a", "b", "Conflicts")
    /\ HasEdge(relations, "a", "b", "Conflicts")
    /\ HasEdge(relations, "b", "a", "Uses")

\* the relation rows whose triple differs from (from_id, to_id, type)
OtherEdges(R, from_id, to_id, type) == {r \in R : ~SameEdge(r, from_id, to_id, type)}

(* C18: the edge key is the full triple.  A successful create_relation(a,  *)
(* b, t) or a delete_relation(a, b, t) leaves every stored edge that       *)
(* differs in from_id, to_id or relation type exactly as it was, so two    *)
(* edges a->b of different types coexist and are removed independently.    *)
C18_OtherEdgesUntouched ==
    [][((Returned("create_relation") /\ last'.result = "Ok") \/ Returned("delete_relation"))
          => OtherEdges(relations', last'.a, last'.b, last'.t)
                 = OtherEdges(relations, last'.a, last'.b, last'.t)]_vars

\* the Conflicts edge a->b was created a second after the Uses edge a->b, which
\* is still stored with the metadata and the timestamp it had
C18_Witness ==
    /\ last = Ret("create_relation", "Ok", "a", "b", "Conflicts")
    /\ EdgesOf(relations, "a", "b", "Uses") = {Relation("a", "b", "Uses", "m1", 0)}
    /\ EdgesOf(relations, "a", "b", "Conflicts") = {Relation("a", "b", "Conflicts", NULL, 1)}

\* the Uses edge a->b was removed and the Conflicts edge a->b, created in an
\* earlier second, is still stored
C18_WitnessRemoved ==
    /\ last = Ret("delete_relation", "Ok", "a", "b", "Uses")
    /\ now = 1
    /\ EdgesOf(relations, "a", "b", "Uses") = {}
    /\ EdgesOf(relations, "a", "b", "Conflicts") = {Relation("a", "b", "Conflicts", "m1", 0)}

----------------------------------------------------------------------------
(* query.rs: SearchOptions and QueryBuilder.  A query returns Ok with the  *)
(* Vec of expertises it read, or a Database error when the statement is    *)
(* refused; `last` keeps the arguments in field a and the Vec in field b.  *)

SearchOptions(limit, offset, scope, tgs) ==
    [limit |-> limit, offset |-> offset, scope |-> scope, tags |-> tgs]

QueryArgs(query, tgs, options) == [query |-> query, tags |-> tgs, options |-> options]

\* AND e.scope = ?   (the predicate is present when options.scope is set)
scope_filter(e, options) ==
    options.scope = None \/ e.scope = Scope_as_str(Unwrap(options.scope))

RowUpdatedAt(r) == r.updated_at

\* OFFSET without LIMIT is not a statement of the SQL dialect
sql_accepts(options) == ~(options.limit = None /\ options.offset # None)

\* LIMIT n OFFSET m on the ordered rows
sql_limit(rows, options) ==
    LET skip == IF options.offset = None THEN 0 ELSE Unwrap(options.offset)
        upto == IF Len(rows) < skip + Unwrap(options.limit)
                THEN Len(rows) ELSE skip + Unwrap(options.limit)
    IN  IF options.limit = None THEN rows ELSE SubSeq(rows, skip + 1, upto)

\* for (data_json,) in rows { expertises.push(Expertise::from_json(&data_json)?) }
rows_to_expertises(rows, options) ==
    LET kept == sql_limit(rows, options)
    IN  [i \in DOMAIN kept |-> from_json(kept[i].data_json)]

query_return(op, args, rows) ==
    /\ last' = IF sql_accepts(args.options)
               THEN Ret(op, "Ok", args, rows_to_expertises(rows, args.options), "-")
               ELSE Ret(op, "Database", args, <<>>, "-")
    /\ UNCHANGED <<tables, now, calls>>

\* FROM expertises e INNER JOIN tags t ON e.id = t.expertise_id
\* WHERE t.tag IN (?, ...) [AND e.scope = ?]
tag_join(E, T, tgs, options) ==
    {j \in E \X DOMAIN T :
        /\ j[1].id = j[2][1]
        /\ j[2][2] \in {tgs[i] : i \in DOMAIN tgs}
        /\ scope_filter(j[1], options)}

\* HAVING COUNT(DISTINCT t.tag) = {tags.len()}
having_all_tags(J, id, tgs) == Cardinality({j[2][2] : j \in {x \in J : x[1].id = id}}) = Len(tgs)

\* GROUP BY e.id: one row per group that passes HAVING; the expertise columns
\* of the row are those of any one row of the group
group_by_id(J, tgs) ==
    LET groups == {id \in {j[1].id : j \in J} : having_all_tags(J, id, tgs)}
        members(id) == {j[1] : j \in {x \in J : x[1].id = id}}
    IN  {S \in SUBSET UNION {members(id) : id \in groups} :
            \A id \in groups : Cardinality(S \cap members(id)) = 1}

filter_by_tags(tgs, options) ==
    IF tgs = <<>>
    THEN /\ last' = Ret("filter_by_tags", "Ok", QueryArgs("-", tgs, options), <<>>, "-")
         /\ UNCHANGED <<tables, now, calls>>
    ELSE \E S \in group_by_id(tag_join(expertises, tags, tgs, options), tgs) :
            \E rows \in Orderings(S, RowUpdatedAt) :
                query_return("filter_by_tags", QueryArgs("-", tgs, options), rows)

\* the text the search index holds for a row: its description and its content
fts_text(r) == {r.description, r.data_json.content}

\* SELECT id FROM expertises_fts WHERE expertises_fts MATCH ?
fts_match(E, query) == {r.id : r \in {x \in E : query \in fts_text(x)}}

\* SELECT expertise_id FROM tags WHERE tag = ?
tagged_ids(T, tag) == {q[1] : q \in {x \in DOMAIN T : x[2] = tag}}

\* WHERE e.id IN (fts) [AND e.scope = ?] {AND e.id IN (tags WHERE tag = ?)}
search_rows(E, T, query, options) ==
    {e \in E :
        /\ e.id \in fts_match(E, query)
        /\ scope_filter(e, options)
        /\ \A i \in DOMAIN options.tags : e.id \in tagged_ids(T, options.tags[i])}

search(query, options) ==
    \E rows \in Orderings(search_rows(expertises, tags, query, options), RowUpdatedAt) :
        query_return("search", QueryArgs(query, <<>>, options), rows)

\* the order of tag texts under ORDER BY t.tag
TagOrder == <<"t1", "t2", "t3">>

tag_rank(tag) == CHOOSE i \in DOMAIN TagOrder : TagOrder[i] = tag

\* FROM tags t [INNER JOIN expertises e ON t.expertise_id = e.id WHERE e.scope = ?]:
\* the number of joined rows a tag row contributes
list_tags_joined(E, T, q, scope) ==
    IF scope = None THEN T[q]
    ELSE T[q] * Cardinality({e \in E : e.id = q[1] /\ e.scope = Scope_as_str(Unwrap(scope))})

RECURSIVE list_tags_sum(_, _, _, _)
list_tags_sum(E, T, Q, scope) ==
    IF Q = {} THEN 0
    ELSE LET q == CHOOSE x \in Q : TRUE
         IN  list_tags_joined(E, T, q, scope) + list_tags_sum(E, T, Q \ {q}, scope)

\* COUNT(*) of the group of a tag
list_tags_count(E, T, tag, scope) ==
    list_tags_sum(E, T, {q \in DOMAIN T : q[2] = tag}, scope)

\* ORDER BY count DESC, t.tag
list_tags_before(x, y) == x[2] > y[2] \/ (x[2] = y[2] /\ tag_rank(x[1]) < tag_rank(y[1]))

\* SELECT t.tag, COUNT(*) as count ... GROUP BY t.tag ORDER BY count DESC, t.tag
list_tags_rows(E, T, scope) ==
    LET groups == {g \in {q[2] : q \in DOMAIN T} : list_tags_count(E, T, g, scope) > 0}
        rows == {<<g, list_tags_count(E, T, g, scope)>> : g \in groups}
    IN  CHOOSE f \in [1..Cardinality(rows) -> rows] :
            /\ \A i, j \in DOMAIN f : i # j => f[i] # f[j]
            /\ \A i, j \in DOMAIN f : i < j => list_tags_before(f[i], f[j])

list_tags(scope) ==
    /\ last' = Ret("list_tags", "Ok", scope, list_tags_rows(expertises, tags, scope), "-")
    /\ UNCHANGED <<tables, now, calls>>

----------------------------------------------------------------------------
(* Sequential specification of the queries: expertises are created under   *)
(* the keys (a, Personal), (a, Company) and (b, Personal) with the clock   *)
(* advancing or not, and filter_by_tags, search and list_tags are called   *)
(* on what is stored.                                                      *)

QueryKeys == {<<"a", "Personal">>, <<"a", "Company">>, <<"b", "Personal">>}

QueryPayloads ==
    {[description |-> "d1", tags |-> <<"t1">>],
     [description |-> "d2", tags |-> <<"t1", "t2">>],
     [description |-> "d1", tags |-> <<>>]}

QueryTagLists == {<<>>, <<"t1">>, <<"t2", "t1">>, <<"t1", "t1">>}

QueryOptions ==
    {SearchOptions(None, None, scope, tgs) :
        scope \in {None, Some("Personal"), Some("Company")},
        tgs \in {<<>>, <<"t1">>, <<"t1", "t2">>}}

QueryTexts == {"d1", "d2"}

QueryCreate ==
    \E k \in QueryKeys, pl \in QueryPayloads :
        create(Expertise_new(k[1], "1.0.0", pl.description, pl.tags, "c", k[2], now, now))

QueryFilterByTags ==
    \E tgs \in QueryTagLists, options \in QueryOptions :
        options.tags = <<>> /\ filter_by_tags(tgs, options)

QuerySearch == \E query \in QueryTexts, options \in QueryOptions : search(query, options)

QueryListTags == \E scope \in {None, Some("Personal"), Some("Company")} : list_tags(scope)

NextQuery == Tick \/ QueryCreate \/ QueryFilterByTags \/ QuerySearch \/ QueryListTags

SpecQuery == Init /\ [][NextQuery]_vars

\* the stored expertises, as get returns them
StoredExpertises == {from_json(r.data_json) : r \in expertises}

InScope(e, options) == options.scope = None \/ e.scope = Unwrap(options.scope)

(* C19: for every non-empty list T of tags, whatever its order and whether *)
(* or not it repeats a tag, filter_by_tags(T, options) returns exactly the *)
(* stored expertises, of options.scope when it is set, whose tag set       *)
(* contains every tag of T, each of them once; filter_by_tags([], options) *)
(* returns an empty Vec.                                                   *)
C19_FilterByTagsExact ==
    [][Returned("filter_by_tags") =>
          LET tgs == last'.a.tags
              options == last'.a.options
              expected == {e \in StoredExpertises :
                              InScope(e, options) /\ Range(tgs) \subseteq Range(e.tags)}
          IN  /\ last'.result = "Ok"
              /\ IF tgs = <<>> THEN last'.b = <<>>
                 ELSE Range(last'.b) = expected /\ Len(last'.b) = Cardinality(expected)]_vars

(* C20: search(query, options) returns exactly the stored expertises that  *)
(* match the text query, are in options.scope when it is set, and carry    *)
(* every tag of options.tags; an expertise that does not match the text,   *)
(* is in another scope, or lacks one of the requested tags is never        *)
(* returned.                                                               *)
C20_SearchExact ==
    [][Returned("search") =>
          LET query == last'.a.query
              options == last'.a.options
              expected == {e \in StoredExpertises :
                              /\ query \in {e.description, e.content}
                              /\ InScope(e, options)
                              /\ Range(options.tags) \subseteq Range(e.tags)}
          IN  /\ last'.result = "Ok"
              /\ Range(last'.b) = expected]_vars

----------------------------------------------------------------------------
\* the stored expertises, of the scope when one is given, that carry the tag
Carriers(tag, scope) ==
    {e \in StoredExpertises :
        (scope = None \/ e.scope = Unwrap(scope)) /\ tag \in Range(e.tags)}

(* C21: list_tags(scope) returns one (tag, n) pair per distinct tag in     *)
(* use, n being the number of stored expertises (of the given scope, when  *)
(* a scope is given) that carry the tag, ordered by n descending and,      *)
(* among equal n, by tag text ascending.                                   *)
C21_ListTagsCounts ==
    [][Returned("list_tags") =>
          LET scope == last'.a
              rows == last'.b
              used == {tag \in Range(TagOrder) : Carriers(tag, scope) # {}}
          IN  /\ last'.result = "Ok"
              /\ Range(rows) = {<<tag, Cardinality(Carriers(tag, scope))>> : tag \in used}
              /\ Len(rows) = Cardinality(used)
              /\ \A i, j \in DOMAIN rows : i < j => list_tags_before(rows[i], rows[j])]_vars

----------------------------------------------------------------------------
\* SELECT COUNT(*) FROM expertises
count_ignoring_scope(E, scope) == Cardinality(E)

\* SELECT COUNT(*) FROM expertises [WHERE scope = ?]
count(E, scope) ==
    IF scope = None THEN Cardinality(E)
    ELSE Cardinality({r \in E : r.scope = Scope_as_str(Unwrap(scope))})

\* the keys under which something is stored
StoredKeys(E, scope) ==
    {k \in Ids \X Scope :
        /\ scope # None => k[2] = Unwrap(scope)
        /\ \E r \in E : r.id = k[1] /\ r.scope = Scope_as_str(k[2])}

CountScopes == {None} \cup {Some(s) : s \in Scope}

(* C22: after any sequence of create, update and delete calls count(None)  *)
(* is the number of stored entities and count(Some(s)) the number of       *)
(* stored entities of scope s; a successful create raises the matching     *)
(* counts by one, a successful delete lowers them by one, and update and   *)
(* every failed call leave them unchanged.                                 *)
C22_CountTracksStore ==
    [][/\ \A scope \in CountScopes :
             count(expertises', scope) = Cardinality(StoredKeys(expertises', scope))
       /\ \A op \in {"create", "update", "delete"} :
             Returned(op) =>
                \A scope \in CountScopes :
                    LET matching == scope = None \/ scope = Some(last'.b)
                        step == IF last'.result = "Ok" /\ matching
                                THEN CASE op = "create" -> 1
                                       [] op = "delete" -> 0 - 1
                                       [] OTHER -> 0
                                ELSE 0
                    IN  count(expertises', scope) = count(expertises, scope) + step]_vars

C22_Witness ==
    /\ last = Ret("delete", "Ok", "a", "Company", "-")
    /\ count(expertises, None) = 1
    /\ count(expertises, Some("Personal")) = 1
    /\ count(expertises, Some("Company")) = 0

----------------------------------------------------------------------------
(* Sequential specification of the listings: expertises are created,       *)
(* updated and deleted one call at a time, two of them in one scope, with  *)
(* the clock advancing between calls or not, and list and list_all are     *)
(* called on what is stored.  The rows of equal sort key come back in any  *)
(* order.                                                                  *)

\* the order of the scope column's texts under ORDER BY scope
scope_rank(text) ==
    CASE text = "company" -> 1
      [] text = "personal" -> 2
      [] text = "project" -> 3

\* SELECT data_json FROM expertises WHERE scope = ? ORDER BY updated_at DESC
list_rows(E, scope) ==
    Orderings({r \in E : r.scope = Scope_as_str(scope)}, RowUpdatedAt)

\* the Vec that list may return: Expertise::from_json of each row, in row order
list_results(E, scope) ==
    {[i \in DOMAIN f |-> from_json(f[i].data_json)] : f \in list_rows(E, scope)}

list(scope) ==
    /\ \E vec \in list_results(expertises, scope) : last' = Ret("list", "Ok", scope, vec, "-")
    /\ UNCHANGED <<tables, now, calls>>

\* SELECT data_json FROM expertises ORDER BY scope, updated_at DESC
list_all_rows(E) ==
    {f \in [1..Cardinality(E) -> E] :
        /\ \A i, j \in 1..Cardinality(E) : i # j => f[i] # f[j]
        /\ \A i, j \in 1..Cardinality(E) :
              i < j => \/ scope_rank(f[i].scope) < scope_rank(f[j].scope)
                       \/ /\ f[i].scope = f[j].scope
                          /\ f[i].updated_at >= f[j].updated_at}

list_all ==
    /\ \E f \in list_all_rows(expertises) :
          last' = Ret("list_all", "Ok", "-", [i \in DOMAIN f |-> from_json(f[i].data_json)], "-")
    /\ UNCHANGED <<tables, now, calls>>

ListKeys == {<<"a", "Personal">>, <<"b", "Personal">>, <<"c", "Company">>}

ListPayloads ==
    {[version |-> "1.0.0", description |-> "d1"], [version |-> "2.0.0", description |-> "d2"]}

ListInputs ==
    {Expertise_new(k[1], pl.version, pl.description, <<>>, "c", k[2], now, now) :
        k \in ListKeys, pl \in ListPayloads}

ListCreate == \E e \in ListInputs : e.version = "1.0.0" /\ create(e)

\* updates are confined to one expertise, which bounds the archive
ListUpdate == \E e \in ListInputs : e.id = "a" /\ e.version = "2.0.0" /\ update(e)

ListDelete == \E k \in ListKeys : delete(k[1], k[2])

ListList == \E scope \in {"Personal", "Company"} : list(scope)

ListListAll == list_all

NextList == Tick \/ ListCreate \/ ListUpdate \/ ListDelete \/ ListList \/ ListListAll

SpecList == Init /\ [][NextList]_vars

\* the stored expertises of a table
ExpertisesOf(E) == {from_json(r.data_json) : r \in E}

\* a Vec lists every element of S once and nothing else
ListsOnce(vec, S) == Range(vec) = S /\ Len(vec) = Cardinality(S)

(* C23: list(scope) returns exactly the stored entities of that scope,     *)
(* each once, in non-increasing updated_at order; list_all returns every   *)
(* stored entity, grouped by scope, with non-increasing updated_at inside  *)
(* each scope group; so an entity that was just updated precedes the       *)
(* entities of its scope that were last written earlier, in whatever Vec   *)
(* list can return.                                                        *)
C23_ListOrder ==
    [][/\ Returned("list") =>
             LET vec == last'.b
             IN  /\ ListsOnce(vec, {e \in ExpertisesOf(expertises) : e.scope = last'.a})
                 /\ \A i, j \in DOMAIN vec : i < j => vec[i].updated_at >= vec[j].updated_at
       /\ Returned("list_all") =>
             LET vec == last'.b
             IN  /\ ListsOnce(vec, ExpertisesOf(expertises))
                 /\ \A i, j \in DOMAIN vec :
                       i < j /\ vec[i].scope = vec[j].scope =>
                           /\ vec[i].updated_at >= vec[j].updated_at
                           /\ \A k \in i..j : vec[k].scope = vec[i].scope
       /\ Returned("update") /\ last'.result = "Ok" =>
             \A vec \in list_results(expertises', last'.b) :
                 /\ Len(vec) > 0
                 /\ vec[1].id = last'.a]_vars

----------------------------------------------------------------------------
(* Reading the neighbours of a node.  A Vec whose order the query leaves   *)
(* open is a bag of its elements.                                          *)

\* SELECT from_id FROM relations WHERE to_id = ? AND relation_type IN (...): one row per edge
get_dependents_all_rows(R, id) ==
    LET rows == {x \in R : x.to_id = id /\ x.relation_type \in {"uses", "requires", "extends"}}
    IN  [from_id \in {x.from_id : x \in rows} |->
            Cardinality({x \in rows : x.from_id = from_id})]

\* SELECT DISTINCT: each value once
sql_distinct(B) == [x \in DOMAIN B |-> 1]

\* SELECT DISTINCT from_id FROM relations WHERE to_id = ? AND relation_type IN (...)
get_dependents(R, id) == sql_distinct(get_dependents_all_rows(R, id))

\* the ids joined to id by a stored edge of one of the types, in the given direction
Neighbours(R, id, types, outgoing) ==
    {other \in Ids : \E type \in types :
        IF outgoing THEN HasEdge(R, id, other, type) ELSE HasEdge(R, other, id, type)}

(* C24: get_dependencies(id) returns exactly the distinct to_ids of the    *)
(* stored edges leaving id with type Uses, Extends or Requires, and        *)
(* get_dependents(id) exactly the distinct from_ids of such edges entering *)
(* id; a neighbour joined only by a Conflicts edge is in neither, and a    *)
(* neighbour joined by several dependency types is listed once.            *)
C24_DependencyNeighbours ==
    \A id \in Ids :
        /\ get_dependencies(relations, id)
              = Neighbours(relations, id, {"Uses", "Extends", "Requires"}, TRUE)
        /\ BagToSet(get_dependents(relations, id))
              = Neighbours(relations, id, {"Uses", "Extends", "Requires"}, FALSE)
        /\ \A from_id \in BagToSet(get_dependents(relations, id)) :
              CopiesIn(from_id, get_dependents(relations, id)) = 1

\* b depends on a twice over (Uses and Requires); c is joined to a by a Conflicts edge only
C24_Witness ==
    /\ HasEdge(relations, "b", "a", "Uses")
    /\ HasEdge(relations, "b", "a", "Requires")
    /\ HasEdge(relations, "c", "a", "Conflicts")
    /\ BagToSet(get_dependents(relations, "a")) = {"b"}
    /\ get_dependencies(relations, "b") = {"a"}
    /\ get_dependencies(relations, "c") = {}

----------------------------------------------------------------------------
\* RelationType::from_str on the stored text
RelationType_from_str(text) ==
    CASE text = "uses"      -> "Uses"
      [] text = "extends"   -> "Extends"
      [] text = "conflicts" -> "Conflicts"
      [] text = "requires"  -> "Requires"

RelationCreatedAt(r) == r.created_at

\* SELECT ... FROM relations WHERE from_id = ? ORDER BY created_at DESC:
\* the Vecs of Relation that get_outgoing may return
get_outgoing(R, from_id) ==
    {[i \in DOMAIN f |->
         [from_id |-> f[i].from_id, to_id |-> f[i].to_id,
          relation_type |-> RelationType_from_str(f[i].relation_type),
          metadata |-> f[i].metadata, created_at |-> f[i].created_at]] :
        f \in Orderings({r \in R : r.from_id = from_id}, RelationCreatedAt)}

\* the Vec lists an edge from -> to of the type
Lists(vec, to_id, type) ==
    \E i \in DOMAIN vec : vec[i].to_id = to_id /\ vec[i].relation_type = type

(* C25: delete_relation(from, to, type) always returns success: if the     *)
(* triple is stored it is absent afterwards (get_outgoing(from) no longer  *)
(* lists it), and if it is not stored the relations table is unchanged and *)
(* no error is raised.                                                     *)
C25_DeleteRelationAlwaysOk ==
    [][Returned("delete_relation") =>
          /\ last'.result = "Ok"
          /\ ~HasEdge(relations', last'.a, last'.b, last'.t)
          /\ \A vec \in get_outgoing(relations', last'.a) : ~Lists(vec, last'.b, last'.t)
          /\ \A vec \in get_outgoing(relations, last'.a) :
                Lists(vec, last'.b, last'.t) <=> HasEdge(relations, last'.a, last'.b, last'.t)
          /\ ~HasEdge(relations, last'.a, last'.b, last'.t) => relations' = relations]_vars

\* no expertise was ever created, so no edge was ever stored: the triple
\* that the call named was missing
C25_Witness ==
    /\ last = Ret("delete_relation", "Ok", "a", "b", "Uses")
    /\ expertises = {}
    /\ relations = {}

\* the Uses edge a->b is gone and get_outgoing(a) lists the Conflicts edge only
C25_WitnessRemoved ==
    /\ last = Ret("delete_relation", "Ok", "a", "b", "Uses")
    /\ \E vec \in get_outgoing(relations, "a") :
          Len(vec) = 1 /\ Lists(vec, "b", "Conflicts")

----------------------------------------------------------------------------
\* SELECT from_id, to_id FROM relations WHERE relation_type IN (...): one row per edge
dependency_pair_rows(R) ==
    LET rows == {x \in R : x.relation_type \in {"uses", "requires", "extends"}}
    IN  [p \in {<<x.from_id, x.to_id>> : x \in rows} |->
            Cardinality({x \in rows : x.from_id = p[1] /\ x.to_id = p[2]})]

\* for (from_id, to_id) in rows { graph.entry(from_id).or_default().push(to_id) }
build_graph_from(rows) ==
    [from_id \in {p[1] : p \in DOMAIN rows} |->
        [to_id \in {p[2] : p \in {q \in DOMAIN rows : q[1] = from_id}} |->
            rows[<<from_id, to_id>>]]]

\* the map built from one row per edge
build_graph_all_rows(R) == build_graph_from(dependency_pair_rows(R))

\* SELECT DISTINCT from_id, to_id ...; the HashMap<String, Vec<String>> returned
build_graph(R) == build_graph_from(sql_distinct(dependency_pair_rows(R)))

\* the number of times to_id is listed under from_id
Listed(graph, from_id, to_id) ==
    IF from_id \in DOMAIN graph THEN CopiesIn(to_id, graph[from_id]) ELSE 0

(* C26: build_graph returns a mapping in which b is listed under a exactly *)
(* when at least one Uses, Extends or Requires edge a->b is stored, each   *)
(* (a, b) pair once even if several dependency types join them; a pair     *)
(* joined only by a Conflicts edge is never listed.                        *)
C26_BuildGraphPairs ==
    \A a \in Ids, b \in Ids :
        Listed(build_graph(relations), a, b)
            = IF \E type \in {"Uses", "Extends", "Requires"} : HasEdge(relations, a, b, type)
              THEN 1 ELSE 0

\* a->b is stored as Uses and as Requires, a->c as Conflicts only
C26_Witness ==
    /\ HasEdge(relations, "a", "b", "Uses")
    /\ HasEdge(relations, "a", "b", "Requires")
    /\ HasEdge(relations, "a", "c", "Conflicts")
    /\ Listed(build_graph(relations), "a", "b") = 1
    /\ Listed(build_graph(relations), "a", "c") = 0

----------------------------------------------------------------------------
\* the snapshots archived for an id under a version string
SnapshotsOf(V, id, version) == {v \in V : v.expertise_id = id /\ v.version = version}

(* C27: at most one snapshot exists per (expertise id, version string): a  *)
(* successful update leaves exactly one snapshot under the version string  *)
(* that the expertise carried before the call, holding the state stored    *)
(* immediately before this update (so the archive of a later update        *)
(* replaces that of an earlier one under the same string), get_version     *)
(* returns that state and list_versions lists the string once.             *)
C27_OneSnapshotPerVersion ==
    [][/\ \A v \in versions' : SnapshotsOf(versions', v.expertise_id, v.version) = {v}
       /\ (Returned("update") /\ last'.result = "Ok") =>
             LET old == Unwrap(get(expertises, last'.a, last'.b))
             IN  /\ Cardinality(SnapshotsOf(versions', last'.a, old.version)) = 1
                 /\ get_version(versions', last'.a, old.version) = Some(old)
                 /\ \A vec \in list_versions(versions', last'.a) :
                       Cardinality({i \in DOMAIN vec : vec[i] = old.version}) = 1]_vars

\* the snapshot under "1.0.0" holds a state stamped later than the row was
\* created, so an update had written it, and the expertise still carries
\* "1.0.0": the archive of a second update under the same string
C27_Witness ==
    /\ last = Ret("update", "Ok", "a", "Personal", "-")
    /\ \E v \in SnapshotsOf(versions, "a", "1.0.0"), r \in RowsOf(expertises, "a", "Personal") :
          /\ v.data_json.scope = "personal"
          /\ v.data_json.created_at > r.created_at
          /\ r.version = "1.0.0"

----------------------------------------------------------------------------
(* types.rs: Scope::from_str and Display.  A text is a sequence of         *)
(* characters and a character a pair <<letter, upper>>: the letter in      *)
(* lower case and whether the character is its capital.  The blank and the *)
(* long s have no capital form that maps back to them.                     *)

\* the characters of a string literal
chars(str) ==
    CASE str = "personal"  -> <<"p", "e", "r", "s", "o", "n", "a", "l">>
      [] str = "company"   -> <<"c", "o", "m", "p", "a", "n", "y">>
      [] str = "project"   -> <<"p", "r", "o", "j", "e", "c", "t">>
      [] str = "person"    -> <<"p", "e", "r", "s", "o", "n">>
      [] str = "personal " -> <<"p", "e", "r", "s", "o", "n", "a", "l", " ">>
      [] str = "team"      -> <<"t", "e", "a", "m">>
      [] str = "per(long s)onal"  -> <<"p", "e", "r", "long s", "o", "n", "a", "l">>
      [] str = ""          -> <<>>

Uncased == {" ", "long s"}

\* the text of a literal, as written
literal(str) == [i \in DOMAIN chars(str) |-> <<chars(str)[i], FALSE>>]

\* str::to_lowercase
to_lowercase(text) == [i \in DOMAIN text |-> <<text[i][1], FALSE>>]

\* match s { "personal" => ..., "company" => ..., "project" => ..., _ => Err(InvalidScope(s)) }
Scope_from_str_exact(text) ==
    CASE text = literal("personal") -> [result |-> "Ok", scope |-> "Personal", text |-> "-"]
      [] text = literal("company")  -> [result |-> "Ok", scope |-> "Company", text |-> "-"]
      [] text = literal("project")  -> [result |-> "Ok", scope |-> "Project", text |-> "-"]
      [] OTHER -> [result |-> "InvalidScope", scope |-> "-", text |-> text]

\* match s.to_lowercase().as_str() { ... _ => Err(Error::InvalidScope(s.to_string())) }
Scope_from_str(text) ==
    LET lower == to_lowercase(text)
    IN  CASE lower = literal("personal") -> [result |-> "Ok", scope |-> "Personal", text |-> "-"]
          [] lower = literal("company")  -> [result |-> "Ok", scope |-> "Company", text |-> "-"]
          [] lower = literal("project")  -> [result |-> "Ok", scope |-> "Project", text |-> "-"]
          [] OTHER -> [result |-> "InvalidScope", scope |-> "-", text |-> text]

\* impl Display for Scope: write!(f, "{}", self.as_str())
Scope_fmt(s) == Scope_as_str(s)

\* the ways of writing a string literal in capitals and small letters
CaseVariants(str) ==
    {[i \in DOMAIN chars(str) |-> <<chars(str)[i], up[i]>>] :
        up \in {u \in [DOMAIN chars(str) -> BOOLEAN] :
                   \A i \in DOMAIN chars(str) : u[i] => chars(str)[i] \notin Uncased}}

\* the text is the literal up to letter case
IsCaseVariant(text, str) ==
    /\ Len(text) = Len(chars(str))
    /\ \A i \in DOMAIN text : text[i][1] = chars(str)[i]

ScopeWords == {Scope_as_str(s) : s \in Scope}

OtherWords == {"", "person", "personal ", "team", "per(long s)onal"}

ScopeTexts == UNION {CaseVariants(w) : w \in ScopeWords \cup OtherWords}

ScopeFromStr ==
    \E text \in ScopeTexts :
        /\ last' = Ret("from_str", Scope_from_str(text).result, text,
                       Scope_from_str(text).scope, Scope_from_str(text).text)
        /\ UNCHANGED <<tables, now, calls>>

ScopeDisplay ==
    \E s \in Scope :
        /\ last' = Ret("to_string", "Ok", s, Scope_fmt(s), "-")
        /\ UNCHANGED <<tables, now, calls>>

NextScope == ScopeFromStr \/ ScopeDisplay

SpecScope == Init /\ [][NextScope]_vars

(* C28: for every Scope s, parsing the text as_str(s) written in any       *)
(* letter case yields s, Display prints as_str(s), and parsing any string  *)
(* that is not personal, company or project in some letter case fails with *)
(* InvalidScope, which carries the string as it was given.                 *)
C28_ScopeParsing ==
    [][/\ Returned("from_str") =>
             /\ \A s \in Scope :
                   IsCaseVariant(last'.a, Scope_as_str(s)) =>
                       last'.result = "Ok" /\ last'.b = s
             /\ (\A s \in Scope : ~IsCaseVariant(last'.a, Scope_as_str(s))) =>
                   last'.result = "InvalidScope" /\ last'.t = last'.a
       /\ Returned("to_string") =>
             /\ last'.b = Scope_as_str(last'.a)
             /\ Scope_from_str(literal(last'.b)).scope = last'.a]_vars

\* "company" written with capitals and small letters mixed parsed to Company
C28_Witness ==
    /\ last.op = "from_str" /\ last.result = "Ok" /\ last.b = "Company"
    /\ \E i, j \in DOMAIN last.a : last.a[i][2] /\ ~last.a[j][2]

\* a text that is no scope name was refused
C28_WitnessInvalid ==
    /\ last.op = "from_str" /\ last.result = "InvalidScope"
    /\ IsCaseVariant(last.a, "personal ")

----------------------------------------------------------------------------
\* the step is a create_relation call for a Conflicts edge between two
\* distinct stored expertises
ConflictsCall ==
    /\ Returned("create_relation")
    /\ last'.t = "Conflicts"
    /\ last'.a # last'.b
    /\ {last'.a, last'.b} \subseteq StoredIds

(* C29 as amended: create_relation(from, to, Conflicts, _) between two     *)
(* distinct stored expertises fails with CircularDependency, writing       *)
(* nothing, when from is reachable from to along stored Uses/Extends/      *)
(* Requires edges, and succeeds, storing the edge, in every other case.    *)
C29_ConflictsCheckedLikeAnyType ==
    [][ConflictsCall =>
          IF last'.a \in ReachableFrom(relations, last'.b)
          THEN last'.result = "CircularDependency" /\ relations' = relations
          ELSE last'.result = "Ok" /\ HasEdge(relations', last'.a, last'.b, "Conflicts")]_vars

(* C29 as written: create_relation(from, to, Conflicts, _) succeeds for    *)
(* every pair of distinct expertises, whatever Uses/Extends/Requires edges *)
(* are stored between or around them.                                      *)
C29_Original ==
    [][ConflictsCall => last'.result = "Ok"]_vars

\* with the dependency path a -> b -> c stored, the Conflicts edge c -> a was refused
C29_Witness ==
    /\ last = Ret("create_relation", "CircularDependency", "c", "a", "Conflicts")
    /\ {"a", "c"} \subseteq StoredIds
    /\ HasEdge(relations, "a", "b", "Uses")
    /\ HasEdge(relations, "b", "c", "Requires")
    /\ ~HasEdge(relations, "c", "a", "Conflicts")

----------------------------------------------------------------------------
(* get_reachable_nodes as it runs: every turn of its loop is a step, and   *)
(* the rows of a get_dependencies query come back in any order.  The       *)
(* relations table is written between traversals only: by create_relation  *)
(* calls that run alone, and by one call b -[Uses]-> a that runs step by    *)
(* step beside them, so that the table can hold a dependency cycle.        *)

\* the orders in which the rows of a get_dependencies query may come back
dependency_orders(R, id) ==
    LET deps == get_dependencies(R, id)
    IN  {f \in [1..Cardinality(deps) -> deps] : \A i, j \in DOMAIN f : i # j => f[i] # f[j]}

\* a turn of the loop that takes up only the first row of the query
reach_turn_first_row(st, deps) ==
    LET n == Len(st.to_visit)
        current == st.to_visit[n]
        rest == SubSeq(st.to_visit, 1, n - 1)
    IN  IF current \in st.reachable
        THEN [reachable |-> st.reachable, to_visit |-> rest]
        ELSE [reachable |-> st.reachable \cup {current},
              to_visit |-> rest \o SubSeq(deps, 1, IF deps = <<>> THEN 0 ELSE 1)]

\* one turn of the `while let Some(current) = to_visit.pop()` loop, the
\* query having returned the rows deps
reach_turn(st, deps) ==
    LET n == Len(st.to_visit)
        current == st.to_visit[n]
        rest == SubSeq(st.to_visit, 1, n - 1)
        unseen(d) == d \notin st.reachable \cup {current}
    IN  IF current \in st.reachable
        THEN [reachable |-> st.reachable, to_visit |-> rest]
        ELSE [reachable |-> st.reachable \cup {current},
              to_visit |-> rest \o SelectSeq(deps, unseen)]

Traverser == "p1"

\* get_reachable_nodes(start_id) is called
traverse_start(start_id) ==
    /\ calls[Traverser].pc = "idle"
    /\ calls' = [calls EXCEPT ![Traverser] =
                   [pc |-> "visit", from_id |-> "-", to_id |-> start_id, type |-> "-",
                    reachable |-> reach_start(start_id).reachable,
                    to_visit |-> reach_start(start_id).to_visit, fetched |-> EmptyBag,
                    result |-> "-"]]
    /\ UNCHANGED <<tables, now, last>>

traverse_visit ==
    /\ calls[Traverser].pc = "visit"
    /\ calls[Traverser].to_visit # <<>>
    /\ LET st == [reachable |-> calls[Traverser].reachable,
                  to_visit |-> calls[Traverser].to_visit]
           current == st.to_visit[Len(st.to_visit)]
       IN  \E deps \in dependency_orders(relations, current) :
               calls' = [calls EXCEPT ![Traverser].reachable = reach_turn(st, deps).reachable,
                                      ![Traverser].to_visit = reach_turn(st, deps).to_visit,
                                      ![Traverser].fetched =
                                          reach_fetched(calls[Traverser].fetched, st)]
    /\ UNCHANGED <<tables, now, last>>

\* the work-list is empty: Ok(reachable)
traverse_return ==
    /\ calls[Traverser].pc = "visit"
    /\ calls[Traverser].to_visit = <<>>
    /\ last' = Ret("get_reachable_nodes", "Ok", calls[Traverser].to_id,
                   calls[Traverser].reachable, "-")
    /\ calls' = [calls EXCEPT ![Traverser] = IdleCall]
    /\ UNCHANGED <<tables, now>>

\* the expertises are created in the order a, b, c
ReachCreate ==
    /\ calls[Traverser].pc = "idle"
    /\ \E id \in Ids :
          /\ id = "b" => "a" \in StoredIds
          /\ id = "c" => "b" \in StoredIds
          /\ create(GraphExpertise(id))

\* Uses edges between any two ids, and the Conflicts edge c -> b
ReachCreateRelation ==
    /\ calls[Traverser].pc = "idle"
    /\ \E from_id \in Ids, to_id \in Ids, type \in RaceTypes :
          /\ Cardinality(relations) < MaxEdges
          /\ type = "Conflicts" => from_id = "c" /\ to_id = "b"
          /\ create_relation(from_id, to_id, type, NULL)

Writer == "p2"

ReachRaceStart ==
    /\ calls[Traverser].pc = "idle"
    /\ Cardinality(relations) < MaxEdges
    /\ call_start(Writer, "b", "a", "Uses")

ReachRaceVisit == calls[Traverser].pc = "idle" /\ call_visit(Writer)

ReachRaceChecked == calls[Traverser].pc = "idle" /\ call_checked(Writer)

ReachRaceWrite == calls[Traverser].pc = "idle" /\ call_write(Writer)

ReachStart == \E start_id \in Ids : traverse_start(start_id)

NextReach ==
    \/ ReachCreate \/ ReachCreateRelation
    \/ ReachRaceStart \/ ReachRaceVisit \/ ReachRaceChecked \/ ReachRaceWrite
    \/ ReachStart \/ traverse_visit \/ traverse_return

SpecReach == Init /\ [][NextReach]_vars

(* C30: on a relations table that does not change during the traversal,   *)
(* get_reachable_nodes(start) returns exactly start together with every    *)
(* node reachable from it along Uses/Extends/Requires edges, whatever      *)
(* order the neighbours are returned in and the work-list is therefore     *)
(* processed in.                                                           *)
C30_ReachableSetExact ==
    [][(calls[Traverser].pc = "visit" /\ calls'[Traverser].pc = "idle") =>
          last'.b = {last'.a} \cup ReachableFrom(relations, last'.a)]_vars

\* a traversal from a over the edges a->b, a->c (and a Conflicts edge c->b)
\* returned {a, b, c}; both neighbour orders lead here
C30_Witness ==
    /\ last = Ret("get_reachable_nodes", "Ok", "a", {"a", "b", "c"}, "-")
    /\ HasEdge(relations, "a", "b", "Uses")
    /\ HasEdge(relations, "a", "c", "Uses")
    /\ HasEdge(relations, "c", "b", "Conflicts")


\* a traversal from a over the dependency cycle a -> b -> a returned {a, b}
C30_WitnessCycle ==
    /\ last = Ret("get_reachable_nodes", "Ok", "a", {"a", "b"}, "-")
    /\ HasEdge(relations, "a", "b", "Uses")
    /\ HasEdge(relations, "b", "a", "Uses")

----------------------------------------------------------------------------
(* The traversal under the executor's scheduling: a future that can take   *)
(* its next turn is polled again, so a turn of the loop that is possible   *)
(* is eventually taken, and so is the return.                              *)

SpecReachFair == SpecReach /\ WF_vars(traverse_visit) /\ WF_vars(traverse_return)

(* C31: the reachability traversal that create_relation runs terminates on *)
(* every finite relations table, one that holds a dependency cycle         *)
(* included, and no traversal sends the get_dependencies query of a node   *)
(* more than once.                                                         *)
C31_TraversalTerminates ==
    /\ [](\A p \in Procs : \A id \in Ids : CopiesIn(id, calls[p].fetched) <= 1)
    /\ (calls[Traverser].pc = "visit") ~> (calls[Traverser].pc = "idle")

\* a traversal from b over the dependency cycle a -> b -> a has emptied its
\* work-list after one query for each of the two nodes
C31_Witness ==
    /\ calls[Traverser].pc = "visit"
    /\ calls[Traverser].to_id = "b"
    /\ calls[Traverser].to_visit = <<>>
    /\ HasEdge(relations, "a", "b", "Uses")
    /\ HasEdge(relations, "b", "a", "Uses")
    /\ calls[Traverser].fetched = SetToBag({"a", "b"})

\* a node is waiting in the work-list a second time, its neighbours fetched already
C31_WitnessQueuedTwice ==
    /\ calls[Traverser].pc = "visit"
    /\ \E i \in DOMAIN calls[Traverser].to_visit :
          calls[Traverser].to_visit[i] \in calls[Traverser].reachable

----------------------------------------------------------------------------
(* query.rs: the statements search and filter_by_tags compose.  A statement *)
(* is the sequence of its `?` placeholders in text order, each named by the *)
(* predicate it stands in; the bound parameters are the sequence of bind    *)
(* calls, each with the option it reads.                                    *)

Placeholders(n, text) == [i \in 1..n |-> text]

OptionalPlaceholder(present, text) == IF present THEN <<text>> ELSE <<>>

Bind(from, value) == [bind |-> from, value |-> value]

OptionalBind(o, from) == IF o # None THEN <<Bind(from, Unwrap(o))>> ELSE <<>>

\* q.bind(scope.as_str())
ScopeBind(options) ==
    IF options.scope # None
    THEN <<Bind("scope", Scope_as_str(Unwrap(options.scope)))>>
    ELSE <<>>

\* MATCH ? [AND e.scope = ?] {AND e.id IN (... WHERE tag = ?)} [LIMIT ?] [OFFSET ?]
search_sql(options) ==
    <<"expertises_fts MATCH ?">>
        \o OptionalPlaceholder(options.scope # None, "e.scope = ?")
        \o Placeholders(Len(options.tags), "tag = ?")
        \o OptionalPlaceholder(options.limit # None, "LIMIT ?")
        \o OptionalPlaceholder(options.offset # None, "OFFSET ?")

\* the limit is bound before the tags
search_binds_limit_first(query, options) ==
    <<Bind("query", query)>>
        \o ScopeBind(options)
        \o OptionalBind(options.limit, "limit")
        \o [i \in DOMAIN options.tags |-> Bind("tag", options.tags[i])]
        \o OptionalBind(options.offset, "offset")

\* q.bind(query); q.bind(scope.as_str()); q.bind(tag)...; q.bind(limit); q.bind(offset)
search_binds(query, options) ==
    <<Bind("query", query)>>
        \o ScopeBind(options)
        \o [i \in DOMAIN options.tags |-> Bind("tag", options.tags[i])]
        \o OptionalBind(options.limit, "limit")
        \o OptionalBind(options.offset, "offset")

\* t.tag IN (?, ...) [AND e.scope = ?]; HAVING, LIMIT and OFFSET are formatted
\* into the text
filter_by_tags_sql(tgs, options) ==
    Placeholders(Len(tgs), "t.tag IN ?")
        \o OptionalPlaceholder(options.scope # None, "e.scope = ?")

\* for tag in &tags { q.bind(tag) }; q.bind(scope.as_str())
filter_by_tags_binds(tgs, options) ==
    [i \in DOMAIN tgs |-> Bind("tag", tgs[i])] \o ScopeBind(options)

----------------------------------------------------------------------------
(* Sequential specification of paging: three expertises are created with    *)
(* the clock advancing or not, and search and filter_by_tags are called     *)
(* with every combination of scope, tag list, limit and offset.             *)

PageKeys == {<<"a", "Personal">>, <<"b", "Personal">>, <<"c", "Company">>}

PageTagLists == {<<>>, <<"t1">>, <<"t1", "t2">>}

PageLimits == {None, Some(1), Some(2)}

PageOffsets == {None, Some(1)}

PageScopes == {None, Some("Personal")}

PageOptions ==
    {SearchOptions(limit, offset, scope, tgs) :
        limit \in PageLimits, offset \in PageOffsets,
        scope \in PageScopes, tgs \in PageTagLists}

PageCreate ==
    \E k \in PageKeys :
        create(Expertise_new(k[1], "1.0.0", "d1", <<"t1", "t2">>, "c", k[2], now, now))

PageSearch == \E options \in PageOptions : search("d1", options)

PageFilterByTags ==
    \E tgs \in PageTagLists, options \in PageOptions :
        options.tags = <<>> /\ filter_by_tags(tgs, options)

NextPage == Tick \/ PageCreate \/ PageSearch \/ PageFilterByTags

SpecPage == Init /\ [][NextPage]_vars

\* the option a placeholder is to receive
PlaceholderOption(text) ==
    CASE text = "expertises_fts MATCH ?" -> "query"
      [] text = "e.scope = ?" -> "scope"
      [] text \in {"tag = ?", "t.tag IN ?"} -> "tag"
      [] text = "LIMIT ?" -> "limit"
      [] text = "OFFSET ?" -> "offset"

BoundInOrder(sql, params) ==
    /\ Len(params) = Len(sql)
    /\ \A i \in DOMAIN sql : params[i].bind = PlaceholderOption(sql[i])

TagBinds(params) == SelectSeq(params, LAMBDA p : p.bind = "tag")

\* C32: whatever scope, tag list, limit and offset a call of search or
\* filter_by_tags is given, the parameters it binds are as many as the
\* placeholders of the statement it composed and follow their order: the i-th
\* bound value is read from the option the i-th placeholder stands for
\* (search: query text, scope, one per tag, limit, offset; filter_by_tags:
\* one per tag, then scope), and the tags are bound in the order given.
C32_BindsMatchPlaceholders ==
    [][/\ Returned("search") =>
            LET sql == search_sql(last'.a.options)
                params == search_binds(last'.a.query, last'.a.options)
            IN  /\ BoundInOrder(sql, params)
                /\ [i \in DOMAIN TagBinds(params) |-> TagBinds(params)[i].value]
                       = last'.a.options.tags
       /\ (Returned("filter_by_tags") /\ last'.a.tags # <<>>) =>
            LET sql == filter_by_tags_sql(last'.a.tags, last'.a.options)
                params == filter_by_tags_binds(last'.a.tags, last'.a.options)
            IN  /\ BoundInOrder(sql, params)
                /\ [i \in DOMAIN TagBinds(params) |-> TagBinds(params)[i].value]
                       = last'.a.tags]_vars

\* search has returned the second of two matches for a call with a scope, two tags, a
\* limit and an offset: five kinds of placeholder, six parameters
C32_Witness ==
    /\ last.op = "search"
    /\ last.result = "Ok"
    /\ last.a.options = SearchOptions(Some(2), Some(1), Some("Personal"), <<"t1", "t2">>)
    /\ Len(search_sql(last.a.options)) = 6
    /\ Len(last.b) = 1

\* filter_by_tags has returned for two tags and a scope
C32_WitnessFilter ==
    /\ last.op = "filter_by_tags"
    /\ last.result = "Ok"
    /\ last.a.tags = <<"t1", "t2">>
    /\ last.a.options.scope = Some("Personal")
    /\ Len(filter_by_tags_binds(last.a.tags, last.a.options)) = 3
    /\ Len(last.b) = 2

\* the number of rows a call is to return from n matches in recency order
PageLength(n, options) ==
    LET skip == IF options.offset = None THEN 0 ELSE Unwrap(options.offset)
        rest == IF n < skip THEN 0 ELSE n - skip
    IN  IF options.limit = None THEN rest
        ELSE IF rest < Unwrap(options.limit) THEN rest ELSE Unwrap(options.limit)

\* the page is positions offset+1 .. offset+limit of some recency ordering of S
IsPageOf(page, S, options) ==
    \E rows \in Orderings(S, RowUpdatedAt) :
        LET skip == IF options.offset = None THEN 0 ELSE Unwrap(options.offset)
        IN  /\ Len(page) = PageLength(Len(rows), options)
            /\ \A i \in DOMAIN page : page[i] = from_json(rows[skip + i].data_json)

\* C33: limit and offset are each optional in search and filter_by_tags, and
\* no combination fails: with offset O and limit L the call returns the
\* matches at positions O .. O+L-1 of the recency ordering, with a limit alone
\* the first L, with an offset alone all after the first O, with neither all.
C33_LimitOffsetOptional ==
    [][/\ Returned("search") =>
            /\ last'.result = "Ok"
            /\ IsPageOf(last'.b,
                        search_rows(expertises, tags, last'.a.query, last'.a.options),
                        last'.a.options)
       /\ (Returned("filter_by_tags") /\ last'.a.tags # <<>>) =>
            /\ last'.result = "Ok"
            /\ \E S \in group_by_id(tag_join(expertises, tags, last'.a.tags,
                                             last'.a.options), last'.a.tags) :
                    IsPageOf(last'.b, S, last'.a.options)]_vars

\* what holds of the paging: a call with an offset and no limit is refused
\* with Database, every other call returns its page
C33_PagingUnlessOffsetAlone ==
    [][/\ Returned("search") =>
            IF last'.a.options.limit = None /\ last'.a.options.offset # None
            THEN last'.result = "Database"
            ELSE /\ last'.result = "Ok"
                 /\ IsPageOf(last'.b,
                             search_rows(expertises, tags, last'.a.query, last'.a.options),
                             last'.a.options)
       /\ (Returned("filter_by_tags") /\ last'.a.tags # <<>>) =>
            IF last'.a.options.limit = None /\ last'.a.options.offset # None
            THEN last'.result = "Database"
            ELSE /\ last'.result = "Ok"
                 /\ \E S \in group_by_id(tag_join(expertises, tags, last'.a.tags,
                                                  last'.a.options), last'.a.tags) :
                        IsPageOf(last'.b, S, last'.a.options)]_vars

\* search with an offset and no limit has failed on a store with three matches
C33_WitnessOffsetAlone ==
    /\ last.op = "search"
    /\ last.result = "Database"
    /\ last.a.options = SearchOptions(None, Some(1), None, <<>>)
    /\ Cardinality(search_rows(expertises, tags, "d1", last.a.options)) = 3

\* search with limit 2 and offset 1 has returned the second and third of three
C33_WitnessPage ==
    /\ last.op = "search"
    /\ last.result = "Ok"
    /\ last.a.options = SearchOptions(Some(2), Some(1), None, <<>>)
    /\ Len(last.b) = 2
    /\ Cardinality(search_rows(expertises, tags, "d1", last.a.options)) = 3

----------------------------------------------------------------------------
(* storage.rs: create as the statements it sends, one step each, so that    *)
(* two calls can interleave and a statement can fail.  Each call keeps its  *)
(* position, the tags still to insert, its result and what was stored when  *)
(* it was called.                                                           *)

CreateCall(pc, e, todo, result, failed, before) ==
    [pc |-> pc, expertise |-> e, todo |-> todo, result |-> result,
     failed |-> failed, before |-> before]

create_call(p, e) ==
    /\ calls[p].pc = "idle"
    /\ calls' = [calls EXCEPT ![p] =
                    CreateCall("exists", e, <<>>, "-", FALSE,
                               [expertises |-> expertises, tags |-> tags])]
    /\ UNCHANGED <<tables, now, last>>

\* if self.exists(id, scope).await? { return Err(Error::AlreadyExists {..}) }
create_exists(p) ==
    /\ calls[p].pc = "exists"
    /\ IF exists(expertises, calls[p].expertise.id, calls[p].expertise.scope)
       THEN calls' = [calls EXCEPT ![p].pc = "done", ![p].result = "AlreadyExists"]
       ELSE calls' = [calls EXCEPT ![p].pc = "insert"]
    /\ UNCHANGED <<tables, now, last>>

\* the table refuses a second row of a key it holds as unique
insert_refused(E, e) == exists(E, e.id, e.scope)

\* INSERT INTO expertises (...) VALUES (...): the row is added, or the
\* statement fails on a key the table already holds
create_insert(p) ==
    /\ calls[p].pc = "insert"
    /\ \/ /\ expertises' = expertises \cup {ExpertiseRow(calls[p].expertise)}
          /\ calls' = [calls EXCEPT ![p].pc = "tags_insert",
                                    ![p].todo = calls[p].expertise.tags]
       \/ /\ insert_refused(expertises, calls[p].expertise)
          /\ calls' = [calls EXCEPT ![p].pc = "done", ![p].result = "Database"]
          /\ UNCHANGED expertises
    /\ UNCHANGED <<tags, relations, versions, now, last>>

\* for tag in expertise.tags() { INSERT INTO tags ... .await?; }  Ok(())
create_insert_tag(p) ==
    /\ calls[p].pc = "tags_insert"
    /\ IF calls[p].todo = <<>>
       THEN /\ calls' = [calls EXCEPT ![p].pc = "done", ![p].result = "Ok"]
            /\ UNCHANGED tags
       ELSE /\ tags' = insert_tags(tags, calls[p].expertise.id, <<Head(calls[p].todo)>>)
            /\ calls' = [calls EXCEPT ![p].todo = Tail(calls[p].todo)]
    /\ UNCHANGED <<expertises, relations, versions, now, last>>

\* .execute(&self.pool).await? of a tag insert returns a storage error
create_tag_fails(p) ==
    /\ calls[p].pc = "tags_insert"
    /\ calls[p].todo # <<>>
    /\ calls' = [calls EXCEPT ![p].pc = "done", ![p].result = "Database",
                              ![p].failed = TRUE]
    /\ UNCHANGED <<tables, now, last>>

CrPayloads ==
    {[description |-> "d1", tags |-> <<"t1", "t2">>, content |-> "c1"],
     [description |-> "d2", tags |-> <<"t3">>, content |-> "c2"]}

CrInputs ==
    {Expertise_new("a", "1.0.0", pl.description, pl.tags, pl.content, "Personal", now, now) :
        pl \in CrPayloads}

CrCall == \E p \in Procs, e \in CrInputs : create_call(p, e)

CrExists == \E p \in Procs : create_exists(p)

CrInsert == \E p \in Procs : create_insert(p)

CrInsertTag == \E p \in Procs : create_insert_tag(p)

CrTagFails == \E p \in Procs : create_tag_fails(p)

NextCreate == Tick \/ CrCall \/ CrExists \/ CrInsert \/ CrInsertTag \/ CrTagFails

SpecCreate == Init /\ [][NextCreate]_vars

\* the tag rows of an id that T holds beyond those of T0
NewTagRows(T, T0, id) ==
    {q \in DOMAIN T : q[1] = id /\ CopiesIn(q, T) > CopiesIn(q, T0)}

\* C34: create is all-or-nothing: when create(e) returns an error, a storage
\* failure during a tag insert included, no row of (e.id, e.scope) and no tag
\* row of e is stored that was not stored before the call (the call runs
\* alone: no other call has started).
C34_CreateAllOrNothing ==
    [][\A p \in Procs :
          (/\ calls[p].pc # "done"
           /\ calls'[p].pc = "done"
           /\ calls'[p].result # "Ok"
           /\ \A q \in Procs \ {p} : calls[q].pc = "idle")
          => LET e == calls[p].expertise
             IN  /\ RowsOf(expertises', e.id, e.scope)
                       \subseteq calls[p].before.expertises
                 /\ NewTagRows(tags', calls[p].before.tags, e.id) = {}]_vars

\* a create whose second tag insert failed has returned Database after the
\* row and the first tag row were written
C34_Witness ==
    \E p \in Procs :
        /\ calls[p].pc = "done"
        /\ calls[p].failed
        /\ calls[p].todo = <<"t2">>
        /\ RowsOf(expertises, "a", "Personal") # {}
        /\ CopiesIn(<<"a", "t1">>, tags) = 1

\* C35: when two create calls for the same (id, scope) run concurrently and
\* no statement fails in storage, exactly one returns Ok and the other
\* AlreadyExists (never both Ok, never a generic Database error for the
\* loser), and the stored expertise is the winner's.
C35_OneCreateWins ==
    (\A p \in Procs : calls[p].pc = "done" /\ ~calls[p].failed)
        => \E w \in Procs :
              /\ calls[w].result = "Ok"
              /\ \A p \in Procs \ {w} : calls[p].result = "AlreadyExists"
              /\ RowsOf(expertises, "a", "Personal") = {ExpertiseRow(calls[w].expertise)}

\* both calls passed the existence check before either inserted, and both
\* returned Ok: two rows are stored under the key
C35_WitnessBothOk ==
    /\ \A p \in Procs : calls[p].pc = "done" /\ calls[p].result = "Ok"
    /\ Cardinality(RowsOf(expertises, "a", "Personal")) = 2

\* both passed the check and the table refused the second row: the loser
\* returned Database
C35_WitnessLoserDatabase ==
    /\ \A p \in Procs : calls[p].pc = "done" /\ ~calls[p].failed
    /\ \E p \in Procs : calls[p].result = "Database"
    /\ \E p \in Procs : calls[p].result = "Ok"

\* one call ran to its end before the other checked: Ok and AlreadyExists
C35_WitnessSerial ==
    /\ \A p \in Procs : calls[p].pc = "done"
    /\ \E p \in Procs : calls[p].result = "AlreadyExists"
    /\ \E p \in Procs : calls[p].result = "Ok"

----------------------------------------------------------------------------
(* An update, one statement a step, with a delete of the same key running  *)
(* between its statements.                                                 *)

\* the tags table refuses a row whose expertise_id names no stored expertise
tag_fk_refused(E, id) == ~(\E r \in E : r.id = id)

\* INSERT INTO tags ... .await? fails on the reference to a removed expertise
update_tag_refused(p) ==
    /\ calls[p].pc = "tags_insert"
    /\ calls[p].todo # <<>>
    /\ tag_fk_refused(expertises, calls[p].expertise.id)
    /\ calls' = [calls EXCEPT ![p].pc = "done", ![p].result = "Database"]
    /\ UNCHANGED <<tables, now, last>>

UdUpdater == "p1"

UdPayloads ==
    {[version |-> "2.0.0", description |-> "d2", tags |-> <<>>, content |-> "c2"],
     [version |-> "3.0.0", description |-> "d3", tags |-> <<"t2">>, content |-> "c3"]}

UdInputs ==
    {Expertise_new("a", pl.version, pl.description, pl.tags, pl.content, "Personal", now, now) :
        pl \in UdPayloads}

UdCreate == create(UpdCreated)

UdDelete == delete("a", "Personal")

UdCall == \E e \in UdInputs : update_call(UdUpdater, e)

UdExists == update_exists(UdUpdater)

UdGet == update_get(UdUpdater)

UdSaveVersion == update_save_version(UdUpdater)

UdWrite == update_write(UdUpdater)

UdDeleteTags == update_delete_tags(UdUpdater)

UdInsertTag == update_insert_tag(UdUpdater)

UdTagRefused == update_tag_refused(UdUpdater)

NextUpdDel ==
    \/ Tick \/ UdCreate \/ UdDelete \/ UdCall \/ UdExists \/ UdGet \/ UdSaveVersion
    \/ UdWrite \/ UdDeleteTags \/ UdInsertTag \/ UdTagRefused

SpecUpdDel == Init /\ [][NextUpdDel]_vars

UdReturnsOk ==
    /\ calls[UdUpdater].pc # "done"
    /\ calls'[UdUpdater].pc = "done"
    /\ calls'[UdUpdater].result = "Ok"

\* C36: if update(e) returns Ok then (e.id, e.scope) is stored with e's
\* content when the call returns: whatever a concurrent delete of the key
\* does, update does not return Ok after the expertise was removed, and no tag
\* rows are left for an expertise that is not stored.
C36_UpdateOkMeansStored ==
    [][UdReturnsOk =>
          LET e == calls[UdUpdater].expertise
          IN  /\ get(expertises', e.id, e.scope) # None
              /\ \A x \in get(expertises', e.id, e.scope) :
                    x.content = e.content /\ x.version = e.version
              /\ ~(\E q \in DOMAIN tags' : q[1] = e.id)
                    \/ (\E r \in expertises' : r.id = e.id)]_vars

\* update has returned Ok for an expertise that a delete removed after the
\* existence check: nothing is stored under the key
C36_WitnessOkAfterDelete ==
    /\ calls[UdUpdater].pc = "done"
    /\ calls[UdUpdater].result = "Ok"
    /\ calls[UdUpdater].overwrote = None
    /\ RowsOf(expertises, "a", "Personal") = {}

\* the same with the tag row of the update left behind
C36_WitnessOrphanTag ==
    /\ C36_WitnessOkAfterDelete
    /\ CopiesIn(<<"a", "t2">>, tags) = 1

\* the version rows of an id
VersionsOf(V, id) == {v \in V : v.expertise_id = id}

\* the relation rows of id that do not have other at their far end
EdgesApartFrom(R, id, other) ==
    {r \in Touching(R, id) : id = other \/ (r.from_id # other /\ r.to_id # other)}

StoreReturned == Returned("create") \/ Returned("update") \/ Returned("delete")

\* what the store holds for the key k is the same before and after the step
\* of a call on the id `on`
Untouched(k, on) ==
    /\ get(expertises', k[1], k[2]) = get(expertises, k[1], k[2])
    /\ TagRowsOf(tags', k[1]) = TagRowsOf(tags, k[1])
    /\ EdgesApartFrom(relations', k[1], on) = EdgesApartFrom(relations, k[1], on)
    /\ VersionsOf(versions', k[1]) = VersionsOf(versions, k[1])

\* C37: create, update or delete of (id, s1) changes nothing of any other
\* stored expertise, be it of another id or of the same id in another scope
\* s2: what get returns for it, its tag rows, its relation rows (those not
\* shared with the expertise operated on) and its version rows stay as they
\* were.
C37_OtherKeysUntouched ==
    [][StoreReturned =>
          \A k \in DelKeys :
              (k # <<last'.a, last'.b>> /\ Stored(k[1], k[2])) => Untouched(k, last'.a)]_vars

\* what holds: expertises of another id are untouched
C37_OtherIdsUntouched ==
    [][StoreReturned =>
          \A k \in DelKeys :
              (k[1] # last'.a /\ Stored(k[1], k[2])) => Untouched(k, last'.a)]_vars

\* update of (a, Personal) has replaced the tag row that create wrote for
\* (a, Company), which is stored and was not updated
C37_WitnessTagsOfOtherScope ==
    /\ last = Ret("update", "Ok", "a", "Personal", "-")
    /\ Stored("a", "Company")
    /\ \A x \in get(expertises, "a", "Company") : x.version = "1.0.0"
    /\ TagSetOf(tags, "a") = {"t2"}

\* both ends of every relation row are ids of stored expertises
EndpointsStored(R, E) ==
    \A r \in R : (\E e \in E : e.id = r.from_id) /\ (\E e \in E : e.id = r.to_id)

(* C38: after any sequence of create, delete, create_relation and          *)
(* delete_relation calls both ends of every stored relation row are ids of *)
(* stored expertises, and a create_relation whose from or to is not the id *)
(* of a stored expertise returns an error and leaves the relation rows as  *)
(* they were.                                                              *)
C38_EdgesJoinStoredExpertises ==
    /\ [](EndpointsStored(relations, expertises))
    /\ [][(Returned("create_relation") /\ ~({last'.a, last'.b} \subseteq StoredIds))
            => (last'.result # "Ok" /\ relations' = relations)]_vars

\* create_relation a -> c was refused with c not stored, while the row
\* a -> b is stored
C38_Witness ==
    /\ last = Ret("create_relation", "Database", "a", "c", "Uses")
    /\ "c" \notin StoredIds
    /\ HasEdge(relations, "a", "b", "Uses")

\* the expertise b was deleted while the row a -> b was stored: the row went
\* with it
C38_WitnessCascade ==
    /\ last = Ret("delete", "Ok", "b", "Personal", "-")
    /\ "a" \in StoredIds
    /\ relations = {}
    /\ HasEdge(relations, "a", "b", "Uses") = FALSE

----------------------------------------------------------------------------
(* db.rs: the connection pool.  Every statement of storage.rs, graph.rs    *)
(* and query.rs is run with `&self.pool` as its executor: it takes a       *)
(* connection from the pool, runs, and the connection goes back when the   *)
(* statement's future completes; the operation awaits each statement       *)
(* before it sends the next.  A task is one operation in flight: the       *)
(* statements it has still to run and the connections it holds.            *)

max_connections == 5

PoolTasks == {"t1", "t2", "t3", "t4", "t5", "t6"}

\* the statements of an operation, in the order it awaits them (an expertise
\* without tags, a relation target without dependencies)
Statements(op) ==
    CASE op = "update" ->
            <<"exists", "get", "save_version", "UPDATE expertises", "DELETE FROM tags">>
      [] op = "create" -> <<"exists", "INSERT INTO expertises">>
      [] op = "create_relation" -> <<"get_dependencies", "INSERT OR REPLACE INTO relations">>
      [] op = "search" -> <<"SELECT e.data_json">>

\* the operation each task runs
PoolOp(t) ==
    CASE t = "t1" -> "update"
      [] t \in {"t2", "t3"} -> "create"
      [] t \in {"t4", "t5"} -> "create_relation"
      [] t = "t6" -> "search"

PoolCall(pc, op, todo, held) == [pc |-> pc, op |-> op, todo |-> todo, held |-> held]

RECURSIVE pool_held(_, _)
\* the connections the tasks of T hold
pool_held(C, T) ==
    IF T = {} THEN 0
    ELSE LET t == CHOOSE x \in T : TRUE
         IN  C[t].held + pool_held(C, T \ {t})

pool_idle(C) == max_connections - pool_held(C, DOMAIN C)

\* the connection is kept until the operation returns
statement_done_keeps(held, todo) == IF Len(todo) > 1 THEN held ELSE 0

\* the statement's future completes: its connection goes back to the pool
statement_done(held, todo) == held - 1

pool_call(t) ==
    /\ calls[t].pc = "idle"
    /\ calls' = [calls EXCEPT ![t] = PoolCall("acquire", PoolOp(t), Statements(PoolOp(t)), 0)]
    /\ UNCHANGED <<tables, now, last>>

\* .execute(&self.pool) / .fetch_*(&self.pool): waits for an idle connection
pool_acquire(t) ==
    /\ calls[t].pc = "acquire"
    /\ pool_idle(calls) > 0
    /\ calls' = [calls EXCEPT ![t].pc = "execute", ![t].held = calls[t].held + 1]
    /\ UNCHANGED <<tables, now, last>>

\* .await? of the statement, then the next statement or the return
pool_execute(t) ==
    /\ calls[t].pc = "execute"
    /\ calls' = [calls EXCEPT
                    ![t].held = statement_done(calls[t].held, calls[t].todo),
                    ![t].todo = Tail(calls[t].todo),
                    ![t].pc = IF Len(calls[t].todo) > 1 THEN "acquire" ELSE "done"]
    /\ UNCHANGED <<tables, now, last>>

InitPool ==
    /\ expertises = {}
    /\ tags = EmptyBag
    /\ relations = {}
    /\ versions = {}
    /\ now = 0
    /\ last = Ret("open", "Ok", "-", "-", "-")
    /\ calls = [t \in PoolTasks |-> PoolCall("idle", "-", <<>>, 0)]

PoolStart == \E t \in PoolTasks : pool_call(t)

PoolAcquire == \E t \in PoolTasks : pool_acquire(t)

PoolExecute == \E t \in PoolTasks : pool_execute(t)

NextPool == PoolStart \/ PoolAcquire \/ PoolExecute

SpecPool == InitPool /\ [][NextPool]_vars

\* fair scheduling: while some task can take a connection, or some statement
\* can complete, one of them does
SpecPoolFair == SpecPool /\ WF_vars(PoolAcquire) /\ WF_vars(PoolExecute)

(* C39: every operation holds at most one pooled connection at a time and  *)
(* holds none while it waits for the next, the pool never lends more than  *)
(* max_connections, and under fair scheduling every operation that was     *)
(* started returns, however many are in flight (an operation runs once, so *)
(* from some point on every task is idle or has returned): the pool does   *)
(* not deadlock.                                                           *)
C39_PoolNeverDeadlocks ==
    /\ [](\A t \in PoolTasks :
            /\ calls[t].held <= 1
            /\ calls[t].pc \in {"idle", "acquire", "done"} => calls[t].held = 0)
    /\ [](pool_idle(calls) >= 0)
    /\ <>[](\A t \in PoolTasks : calls[t].pc \in {"idle", "done"})

\* the pool is exhausted: five operations hold a connection each, four of
\* them for their second statement, and the sixth waits
C39_Witness ==
    /\ pool_idle(calls) = 0
    /\ calls["t6"].pc = "acquire"
    /\ \A t \in {"t2", "t3", "t4", "t5"} :
            calls[t].pc = "execute" /\ Len(calls[t].todo) = 1
    /\ calls["t1"].pc = "execute"

====
